---- MODULE Spec2Model ----
(***************************************************************************)
(* A model of SHT (src/src/sht.c), a hash table with "Robin Hood" linear   *)
(* probing, a PSL limit, growth by doubling and an iterator lock.          *)
(*                                                                         *)
(* Conventions                                                             *)
(*  - `ht' is struct sht_ht; every C function that takes the table is an   *)
(*    operator from the table (and its arguments) to a record holding the  *)
(*    table afterwards, the return value and how the call ended (`st').    *)
(*  - st = "ok": the call returned.  st = "abort": sht_abort() was called  *)
(*    (contract violation).  st = "assert:<where>": an assert() failed     *)
(*    (the library is built without NDEBUG).  st = "hang": a loop did not  *)
(*    stop.  In the last three cases the process is gone; `status' keeps   *)
(*    the reason and no further call is made.                              *)
(*  - Return values are not kept in the state: a statement about what a   *)
(*    call returns is a statement about the operator applied to a          *)
(*    reachable table.                                                     *)
(*  - An entry is [key, val]; eqfn compares the caller's key with the key  *)
(*    held in the entry.  JUNK is storage that was never written.          *)
(*  - The bucket word and the entry bytes of an empty position are dead    *)
(*    storage: the model keeps EmptyBckt and JUNK there, and a read of     *)
(*    the hash, the PSL or the entry of an empty position ends the call    *)
(*    with st = "deadread", so that the model shows the code never does.   *)
(*  - uint32_t counters are integers; a negative value stands for the      *)
(*    wrapped value 2^32 + x.                                              *)
(*  - `twin' is a second table that receives the same calls as `ht' in the *)
(*    specification that compares two hash functions; elsewhere there is   *)
(*    none (NoTwin).                                                       *)
(***************************************************************************)
EXTENDS Integers, Sequences, FiniteSets, Bags, TLC

VARIABLES ht, iters, status, amap, freed, twin

vars == <<ht, iters, status, amap, freed, twin>>

\* ------------------------------------------------------------------ bounds

\* Keys are 1..MaxKey.
MaxKey == 4

\* Payloads are 1..MaxVal.
MaxVal == 2

\* log2 of the largest table the model allocates (the code's is 24).
MaxTsizeLog == 4

\* set_psl_limit is called with limits 1..MaxPslLimit.
MaxPslLimit == 2

\* At most MaxIters iterators are live at a time.
MaxIters == 2

\* Entries are told apart by a serial number when the free function is
\* followed: the number of entries a run can store.
MaxIds == 3

\* --------------------------------------------------------------- constants

SHT_DEF_CAPCITY == 6

SHT_DEF_LFT == 85

SHT_DEF_PSL_LIMIT == 127

\* 1 << 24 in the code, scaled to 1 << MaxTsizeLog so that the limit is reached.
SHT_MAX_TSIZE == 2 ^ MaxTsizeLog

SHT_MAX_ITERS == 32767

UINT16_MAX == 65535

INT32_MAX == 2147483647

\* Widths of the bit fields of union sht_bckt.
HASH_BITS == 24

PSL_BITS == 7

NULL == [key |-> 0, val |-> 0, null |-> TRUE]

JUNK == [key |-> 0, val |-> 0]

Keys == 1 .. MaxKey

Vals == 1 .. MaxVal

\* The hash functions the caller may supply (sht_hashfn_t).
HashFns == {"same", "grp"}

\* The load factor thresholds sht_set_lft() is called with.
LftInputs == {20, 100}

\* The capacities sht_init() is called with.
CapInputs == {1, 2, SHT_MAX_TSIZE + 1}

\* ----------------------------------------------------------------- helpers

RECURSIVE BitAnd(_, _)
\* a & b on naturals.
BitAnd(a, b) ==
    IF a = 0 \/ b = 0 THEN 0
    ELSE (a % 2) * (b % 2) + 2 * BitAnd(a \div 2, b \div 2)

RECURSIVE BitLen(_)
\* Number of significant bits of x: 32 - clz(x) for x > 0.
BitLen(x) == IF x = 0 THEN 0 ELSE 1 + BitLen(x \div 2)

\* __builtin_clzg(x, 1) on a uint32_t: leading zeros, or 1 when x is 0.
clzg1(x) == IF x = 0 THEN 1 ELSE 32 - BitLen(x)

\* The caller's hash function.  "same" maps every key to one value, whose
\* ideal position is the last bucket of a table of up to 8 buckets; "grp" maps
\* keys 1 and 2 to 0 and key k > 2 to k - 2 (a group of two followed by
\* neighbours); "mult" is k * 0x9E3779B1 (its low 24 bits).  "same_hi" and
\* "grp_hi" agree with "same" and "grp" on the low 24 bits and differ from
\* them, and from key to key, in the bits above.  "trio" maps keys 1..3 to
\* one value and the others to the next (a group of three that wraps
\* around the end of a table of 8 and pushes a displaced neighbour on).
\* "gap" maps keys 1..3 to one value and the others to that value plus 2
\* (the ideal position of key 4 is where the third of the group sits).
hashfn(fn, key) ==
    CASE fn = "same" -> 7
      [] fn = "grp"  -> IF key <= 2 THEN 0 ELSE key - 2
      [] fn = "trio" -> IF key <= 3 THEN 6 ELSE 7
      [] fn = "gap"  -> IF key <= 3 THEN 4 ELSE 6
      [] fn = "same_hi" -> 7 + key * 2 ^ HASH_BITS
      [] fn = "grp_hi"  -> (IF key <= 2 THEN 0 ELSE key - 2) + key * 2 ^ HASH_BITS
      [] OTHER       -> (key * 3635633) % (2 ^ HASH_BITS)

\* The caller's equality function: the entry holds its key.
eqfn(key, entry) == entry.key = key

\* A bucket as memset(0xff) leaves it.
EmptyBckt == [hash |-> 2 ^ HASH_BITS - 1, psl |-> 2 ^ PSL_BITS - 1, empty |-> 1]

\* What a call leaves behind: the table, the return value, how the call ended,
\* the entries passed to the free function, the entry copied to `out' (or
\* addressed by the returned pointer) and the number of hash function calls.
Ret(h, ret, st) ==
    [ht |-> h, ret |-> ret, st |-> st, freed |-> <<>>, out |-> NULL, hashed |-> 0]

\* The call computed the hash of its key.
Hashed(r) == [r EXCEPT !.hashed = 1]

\* ------------------------------------------------------- creation and setup

\* sht_new_(): calloc'ed table with the defaults.
sht_new_(fn, freefn) ==
    [buckets |-> <<>>, entries |-> <<>>, hashfn |-> fn, freefn |-> freefn,
     lft |-> SHT_DEF_LFT, psl_limit |-> SHT_DEF_PSL_LIMIT,
     tsize |-> 0, mask |-> 0, thold |-> 0,
     count |-> 0, psl_sum |-> 0, max_psl_ct |-> 0, err |-> "OK",
     peak_psl |-> 0, iter_lock |-> 0]

\* sht_set_freefn(): freefn tells whether the function is non-NULL.
sht_set_freefn(h, freefn) ==
    IF h.tsize # 0 THEN Ret(h, 0, "abort")
    ELSE Ret([h EXCEPT !.freefn = freefn], 0, "ok")

\* Mutant of sht_set_lft(): an initialized table is accepted.
sht_set_lft_unguarded(h, lft) ==
    IF lft < 1 \/ lft > 100 THEN Ret(h, 0, "abort")
    ELSE Ret([h EXCEPT !.lft = lft], 0, "ok")

sht_set_lft(h, lft) ==
    IF h.tsize # 0 THEN Ret(h, 0, "abort")
    ELSE IF lft < 1 \/ lft > 100 THEN Ret(h, 0, "abort")
    ELSE Ret([h EXCEPT !.lft = lft], 0, "ok")

sht_set_psl_limit(h, limit) ==
    IF h.tsize # 0 THEN Ret(h, 0, "abort")
    ELSE IF limit < 1 \/ limit > 127 THEN Ret(h, 0, "abort")
    ELSE Ret([h EXCEPT !.psl_limit = limit], 0, "ok")

\* Mutant of sht_alloc_arrays(): the statistics are reset before malloc() is
\* known to have succeeded.
sht_alloc_arrays_resets_first(h, tsize, malloc_ok) ==
    IF ~malloc_ok
    THEN Ret([h EXCEPT !.err = "ALLOC", !.count = 0, !.psl_sum = 0,
                       !.peak_psl = 0, !.max_psl_ct = 0], 0, "ok")
    ELSE Ret([h EXCEPT !.buckets = [i \in 0 .. tsize - 1 |-> EmptyBckt],
                       !.entries = [i \in 0 .. tsize - 1 |-> JUNK],
                       !.tsize = tsize,
                       !.mask = tsize - 1,
                       !.thold = (tsize * h.lft) \div 100,
                       !.count = 0,
                       !.psl_sum = 0,
                       !.peak_psl = 0,
                       !.max_psl_ct = 0], 1, "ok")

\* Mutant of sht_alloc_arrays(): the expansion threshold is rounded up.
sht_alloc_arrays_thold_ceil(h, tsize, malloc_ok) ==
    IF ~malloc_ok THEN Ret([h EXCEPT !.err = "ALLOC"], 0, "ok")
    ELSE Ret([h EXCEPT !.buckets = [i \in 0 .. tsize - 1 |-> EmptyBckt],
                       !.entries = [i \in 0 .. tsize - 1 |-> JUNK],
                       !.tsize = tsize,
                       !.mask = tsize - 1,
                       !.thold = (tsize * h.lft + 99) \div 100,
                       !.count = 0,
                       !.psl_sum = 0,
                       !.peak_psl = 0,
                       !.max_psl_ct = 0], 1, "ok")

\* sht_alloc_arrays(): malloc_ok is what malloc() answers.  (The size
\* computations cannot overflow a 64-bit size_t and are not modelled.)
sht_alloc_arrays(h, tsize, malloc_ok) ==
    IF ~malloc_ok THEN Ret([h EXCEPT !.err = "ALLOC"], 0, "ok")
    ELSE Ret([h EXCEPT !.buckets = [i \in 0 .. tsize - 1 |-> EmptyBckt],
                       !.entries = [i \in 0 .. tsize - 1 |-> JUNK],
                       !.tsize = tsize,
                       !.mask = tsize - 1,
                       !.thold = (tsize * h.lft) \div 100,
                       !.count = 0,
                       !.psl_sum = 0,
                       !.peak_psl = 0,
                       !.max_psl_ct = 0], 1, "ok")

\* Mutant of sht_init_tsize(): the final check refuses the maximum itself.
sht_init_tsize_final_ge(capacity, lft, max_tsize) ==
    IF capacity > max_tsize THEN 0
    ELSE LET c1 == IF capacity = 0 THEN SHT_DEF_CAPCITY ELSE capacity
             c2 == (c1 * 100 + lft - 1) \div lft
             sh == 32 - clzg1(c2 - 1)
         IN  IF sh >= 31 \/ 2 ^ sh >= max_tsize THEN 0 ELSE 2 ^ sh

\* Mutant of sht_init_tsize(): the count of leading zeros of 0 is 32, so
\* that a required size of 1 gives a table of 1.
sht_init_tsize_clz32(capacity, lft, max_tsize) ==
    IF capacity > max_tsize THEN 0
    ELSE LET c1 == IF capacity = 0 THEN SHT_DEF_CAPCITY ELSE capacity
             c2 == (c1 * 100 + lft - 1) \div lft
             sh == BitLen(c2 - 1)
         IN  IF sh >= 31 \/ 2 ^ sh > max_tsize THEN 0 ELSE 2 ^ sh

\* The size computation of sht_init() against a maximum table size of
\* max_tsize: the table size, or 0 where sht_init() answers SHT_ERR_TOOBIG.
sht_init_tsize(capacity, lft, max_tsize) ==
    IF capacity > max_tsize THEN 0
    ELSE LET c1 == IF capacity = 0 THEN SHT_DEF_CAPCITY ELSE capacity
             c2 == (c1 * 100 + lft - 1) \div lft
             sh == 32 - clzg1(c2 - 1)
         IN  \* 1 << 31 is beyond every maximum table size
             IF sh >= 31 \/ 2 ^ sh > max_tsize THEN 0 ELSE 2 ^ sh

\* sht_init() against a maximum table size of max_tsize.
sht_init_max(h, capacity, malloc_ok, max_tsize) ==
    LET tsize == sht_init_tsize(capacity, h.lft, max_tsize)
    IN  IF h.tsize # 0 THEN Ret(h, 0, "abort")
        ELSE IF tsize = 0 THEN Ret([h EXCEPT !.err = "TOOBIG"], 0, "ok")
        ELSE sht_alloc_arrays(h, tsize, malloc_ok)

sht_init(h, capacity, malloc_ok) ==
    sht_init_max(h, capacity, malloc_ok, SHT_MAX_TSIZE)

\* ------------------------------------------------------------ probe engine

\* Mutant of sht_set_entry(): max_psl_ct is not counted.
sht_set_entry_uncounted(h, c_entry, c_bckt, p) ==
    Ret([h EXCEPT !.buckets[p] = c_bckt,
                  !.entries[p] = c_entry,
                  !.count = @ + 1,
                  !.psl_sum = @ + c_bckt.psl,
                  !.peak_psl = IF c_bckt.psl > @ THEN c_bckt.psl ELSE @], 0, "ok")

\* sht_set_entry(): the candidate goes to position p.
sht_set_entry(h, c_entry, c_bckt, p) ==
    LET atlimit == c_bckt.psl = h.psl_limit
        h1 == [h EXCEPT !.buckets[p] = c_bckt,
                        !.entries[p] = c_entry,
                        !.count = @ + 1,
                        !.psl_sum = @ + c_bckt.psl,
                        !.peak_psl = IF c_bckt.psl > @ THEN c_bckt.psl ELSE @,
                        !.max_psl_ct = IF atlimit THEN @ + 1 ELSE @]
    IN  IF atlimit /\ ~(h1.max_psl_ct < h1.thold)
        THEN Ret(h1, 0, "assert:set_entry")
        ELSE Ret(h1, 0, "ok")

\* Mutant of sht_remove_entry(): psl_sum keeps the PSL of the occupant.
sht_remove_entry_keeps_sum(h, p) ==
    LET atlimit == h.buckets[p].psl = h.psl_limit
    IN  IF atlimit /\ ~(h.max_psl_ct > 0)
        THEN Ret(h, 0, "assert:remove_entry")
        ELSE Ret([h EXCEPT !.count = @ - 1,
                           !.max_psl_ct = IF atlimit THEN @ - 1 ELSE @], 0, "ok")

\* sht_remove_entry(): the occupant of p goes to temporary storage (the
\* caller reads it from the table before); statistics are adjusted.
sht_remove_entry(h, p) ==
    LET atlimit == h.buckets[p].psl = h.psl_limit
    IN  IF atlimit /\ ~(h.max_psl_ct > 0)
        THEN Ret(h, 0, "assert:remove_entry")
        ELSE Ret([h EXCEPT !.count = @ - 1,
                           !.psl_sum = @ - h.buckets[p].psl,
                           !.max_psl_ct = IF atlimit THEN @ - 1 ELSE @], 0, "ok")

\* One more than the number of loop iterations any probe can take.
ProbeFuel(h) == 2 * h.tsize + 2 ^ PSL_BITS + 2

RECURSIVE probe_loop_no_displace(_, _, _, _, _, _, _)
\* Mutant of probe_loop(): an insertion never displaces an occupant (plain
\* linear probing).
probe_loop_no_displace(h, cb, ce, key, c_uniq, p0, fuel) ==
    LET p  == BitAnd(p0, h.mask)
        ob == h.buckets[p]
        oe == h.entries[p]
    IN  IF fuel = 0 THEN Ret(h, -1, "hang")
        ELSE IF ob.empty = 1
        THEN IF ce # NULL
             THEN IF h.count = h.thold THEN Ret(h, -2, "ok")
                  ELSE LET s == sht_set_entry(h, ce, cb, p)
                       IN  Ret(s.ht, -1, s.st)
             ELSE Ret(h, -1, "ok")
        ELSE IF ~c_uniq /\ cb = ob /\ eqfn(key, oe)
        THEN Ret(h, p, "ok")
        ELSE IF ~(cb.psl < h.psl_limit) THEN Ret(h, -1, "assert:probe")
        ELSE probe_loop_no_displace(h, [cb EXCEPT !.psl = (@ + 1) % (2 ^ PSL_BITS)],
                                    ce, key, c_uniq, p + 1, fuel - 1)

RECURSIVE probe_loop_fills_past_thold(_, _, _, _, _, _, _)
\* Mutant of probe_loop(): an empty position is filled without the check
\* of count against thold.
probe_loop_fills_past_thold(h, cb, ce, key, c_uniq, p0, fuel) ==
    LET p  == BitAnd(p0, h.mask)
        ob == h.buckets[p]
        oe == h.entries[p]
    IN  IF fuel = 0 THEN Ret(h, -1, "hang")
        ELSE IF ob.empty = 1
        THEN IF ce # NULL
             THEN LET s == sht_set_entry(h, ce, cb, p)
                  IN  Ret(s.ht, -1, s.st)
             ELSE Ret(h, -1, "ok")
        ELSE IF ~c_uniq /\ cb = ob /\ eqfn(key, oe)
        THEN Ret(h, p, "ok")
        ELSE IF cb.psl > ob.psl
        THEN IF ce = NULL THEN Ret(h, -1, "ok")
             ELSE IF ~c_uniq /\ h.count = h.thold THEN Ret(h, -2, "ok")
             ELSE LET r == sht_remove_entry(h, p)
                      s == sht_set_entry(r.ht, ce, cb, p)
                  IN  IF r.st # "ok" THEN Ret(h, -1, r.st)
                      ELSE IF s.st # "ok" THEN Ret(s.ht, -1, s.st)
                      ELSE IF ~(ob.psl < h.psl_limit)
                      THEN Ret(s.ht, -1, "assert:probe")
                      ELSE probe_loop_fills_past_thold(s.ht,
                                      [ob EXCEPT !.psl = (@ + 1) % (2 ^ PSL_BITS)],
                                      oe, key, TRUE, p + 1, fuel - 1)
        ELSE IF ~(cb.psl < h.psl_limit) THEN Ret(h, -1, "assert:probe")
        ELSE probe_loop_fills_past_thold(h, [cb EXCEPT !.psl = (@ + 1) % (2 ^ PSL_BITS)],
                        ce, key, c_uniq, p + 1, fuel - 1)

RECURSIVE probe_loop_displaces_earlier(_, _, _, _, _, _, _)
\* Mutant of probe_loop(): the candidate displaces every occupant whose PSL
\* differs from its own, members of earlier groups included.
probe_loop_displaces_earlier(h, cb, ce, key, c_uniq, p0, fuel) ==
    LET p  == BitAnd(p0, h.mask)
        ob == h.buckets[p]
        oe == h.entries[p]
    IN  IF fuel = 0 THEN Ret(h, -1, "hang")
        ELSE IF ob.empty = 1
        THEN IF ce # NULL
             THEN IF h.count = h.thold THEN Ret(h, -2, "ok")
                  ELSE LET s == sht_set_entry(h, ce, cb, p)
                       IN  Ret(s.ht, -1, s.st)
             ELSE Ret(h, -1, "ok")
        ELSE IF ~c_uniq /\ cb = ob /\ eqfn(key, oe)
        THEN Ret(h, p, "ok")
        ELSE IF cb.psl # ob.psl
        THEN IF ce = NULL THEN Ret(h, -1, "ok")
             ELSE IF ~c_uniq /\ h.count = h.thold THEN Ret(h, -2, "ok")
             ELSE LET r == sht_remove_entry(h, p)
                      s == sht_set_entry(r.ht, ce, cb, p)
                  IN  IF r.st # "ok" THEN Ret(h, -1, r.st)
                      ELSE IF s.st # "ok" THEN Ret(s.ht, -1, s.st)
                      ELSE IF ~(ob.psl < h.psl_limit)
                      THEN Ret(s.ht, -1, "assert:probe")
                      ELSE probe_loop_displaces_earlier(s.ht,
                                      [ob EXCEPT !.psl = (@ + 1) % (2 ^ PSL_BITS)],
                                      oe, key, TRUE, p + 1, fuel - 1)
        ELSE IF ~(cb.psl < h.psl_limit) THEN Ret(h, -1, "assert:probe")
        ELSE probe_loop_displaces_earlier(h, [cb EXCEPT !.psl = (@ + 1) % (2 ^ PSL_BITS)],
                        ce, key, c_uniq, p + 1, fuel - 1)

RECURSIVE probe_loop_displaces_at_thold(_, _, _, _, _, _, _)
\* Mutant of probe_loop(): before the first displacement count is
\* compared with thold after the occupant has been replaced, not before.
probe_loop_displaces_at_thold(h, cb, ce, key, c_uniq, p0, fuel) ==
    LET p  == BitAnd(p0, h.mask)
        ob == h.buckets[p]
        oe == h.entries[p]
    IN  IF fuel = 0 THEN Ret(h, -1, "hang")
        ELSE IF ob.empty = 1
        THEN IF ce # NULL
             THEN IF h.count = h.thold THEN Ret(h, -2, "ok")
                  ELSE LET s == sht_set_entry(h, ce, cb, p)
                       IN  Ret(s.ht, -1, s.st)
             ELSE Ret(h, -1, "ok")
        ELSE IF ~c_uniq /\ cb = ob /\ eqfn(key, oe)
        THEN Ret(h, p, "ok")
        ELSE IF cb.psl > ob.psl
        THEN IF ce = NULL THEN Ret(h, -1, "ok")
             ELSE LET r == sht_remove_entry(h, p)
                      s == sht_set_entry(r.ht, ce, cb, p)
                  IN  IF r.st # "ok" THEN Ret(h, -1, r.st)
                      ELSE IF s.st # "ok" THEN Ret(s.ht, -1, s.st)
                      ELSE IF ~c_uniq /\ h.count = h.thold THEN Ret(s.ht, -2, "ok")
                      ELSE IF ~(ob.psl < h.psl_limit)
                      THEN Ret(s.ht, -1, "assert:probe")
                      ELSE probe_loop_displaces_at_thold(s.ht,
                                      [ob EXCEPT !.psl = (@ + 1) % (2 ^ PSL_BITS)],
                                      oe, key, TRUE, p + 1, fuel - 1)
        ELSE IF ~(cb.psl < h.psl_limit) THEN Ret(h, -1, "assert:probe")
        ELSE probe_loop_displaces_at_thold(h, [cb EXCEPT !.psl = (@ + 1) % (2 ^ PSL_BITS)],
                        ce, key, c_uniq, p + 1, fuel - 1)

RECURSIVE probe_loop(_, _, _, _, _, _, _)
\* The while (1) loop of sht_probe().  cb/ce: candidate bucket and entry
\* (ce = NULL in search mode); p0: position before masking.
probe_loop(h, cb, ce, key, c_uniq, p0, fuel) ==
    LET p  == BitAnd(p0, h.mask)
        ob == h.buckets[p]
        oe == h.entries[p]
    IN  IF fuel = 0 THEN Ret(h, -1, "hang")
        ELSE IF ob.empty = 1
        THEN IF ce # NULL
             THEN IF h.count = h.thold THEN Ret(h, -2, "ok")
                  ELSE LET s == sht_set_entry(h, ce, cb, p)
                       IN  Ret(s.ht, -1, s.st)
             ELSE Ret(h, -1, "ok")
        ELSE IF ~c_uniq /\ cb = ob /\ eqfn(key, oe)
        THEN Ret(h, p, "ok")
        ELSE IF cb.psl > ob.psl
        THEN IF ce = NULL THEN Ret(h, -1, "ok")
             ELSE IF ~c_uniq /\ h.count = h.thold THEN Ret(h, -2, "ok")
             ELSE LET r == sht_remove_entry(h, p)
                      s == sht_set_entry(r.ht, ce, cb, p)
                  IN  IF r.st # "ok" THEN Ret(h, -1, r.st)
                      ELSE IF s.st # "ok" THEN Ret(s.ht, -1, s.st)
                      ELSE IF ~(ob.psl < h.psl_limit)
                      THEN Ret(s.ht, -1, "assert:probe")
                      ELSE probe_loop(s.ht,
                                      [ob EXCEPT !.psl = (@ + 1) % (2 ^ PSL_BITS)],
                                      oe, key, TRUE, p + 1, fuel - 1)
        ELSE IF ~(cb.psl < h.psl_limit) THEN Ret(h, -1, "assert:probe")
        ELSE probe_loop(h, [cb EXCEPT !.psl = (@ + 1) % (2 ^ PSL_BITS)],
                        ce, key, c_uniq, p + 1, fuel - 1)

\* One call of the equality function: its key argument, the position and
\* bucket word of the entry it is given, the candidate entry and bucket word
\* of the probe at the time of the call.
EqCall(key, p, ob, ce, cb) ==
    [key |-> key, pos |-> p, ob |-> ob, ce |-> ce, cb |-> cb]

RECURSIVE eq_calls_any_candidate(_, _, _, _, _, _, _)
\* Mutant of eq_calls(): the key comparison is attempted for every
\* candidate, also one known to be unique.
eq_calls_any_candidate(h, cb, ce, key, c_uniq, p0, fuel) ==
    LET p  == BitAnd(p0, h.mask)
        ob == h.buckets[p]
        oe == h.entries[p]
        called == IF cb = ob THEN {EqCall(key, p, ob, ce, cb)} ELSE {}
    IN  IF fuel = 0 THEN {}
        ELSE IF ob.empty = 1 THEN {}
        ELSE IF ~c_uniq /\ cb = ob /\ eqfn(key, oe) THEN called
        ELSE IF cb.psl > ob.psl
        THEN IF ce = NULL THEN called
             ELSE IF ~c_uniq /\ h.count = h.thold THEN called
             ELSE LET r == sht_remove_entry(h, p)
                      s == sht_set_entry(r.ht, ce, cb, p)
                  IN  IF r.st # "ok" \/ s.st # "ok" \/ ~(ob.psl < h.psl_limit)
                      THEN called
                      ELSE called \cup eq_calls_any_candidate(s.ht,
                                      [ob EXCEPT !.psl = (@ + 1) % (2 ^ PSL_BITS)],
                                      oe, key, TRUE, p + 1, fuel - 1)
        ELSE IF ~(cb.psl < h.psl_limit) THEN called
        ELSE called \cup eq_calls_any_candidate(h,
                        [cb EXCEPT !.psl = (@ + 1) % (2 ^ PSL_BITS)],
                        ce, key, c_uniq, p + 1, fuel - 1)

RECURSIVE eq_calls(_, _, _, _, _, _, _)
\* The calls of ht->eqfn made by the while (1) loop of sht_probe(), which
\* this operator follows step by step: a call is made where !c_uniq and
\* cb->all == ob->all hold.
eq_calls(h, cb, ce, key, c_uniq, p0, fuel) ==
    LET p  == BitAnd(p0, h.mask)
        ob == h.buckets[p]
        oe == h.entries[p]
        called == IF ~c_uniq /\ cb = ob THEN {EqCall(key, p, ob, ce, cb)} ELSE {}
    IN  IF fuel = 0 THEN {}
        ELSE IF ob.empty = 1 THEN {}
        ELSE IF ~c_uniq /\ cb = ob /\ eqfn(key, oe) THEN called
        ELSE IF cb.psl > ob.psl
        THEN IF ce = NULL THEN called
             ELSE IF ~c_uniq /\ h.count = h.thold THEN called
             ELSE LET r == sht_remove_entry(h, p)
                      s == sht_set_entry(r.ht, ce, cb, p)
                  IN  IF r.st # "ok" \/ s.st # "ok" \/ ~(ob.psl < h.psl_limit)
                      THEN called
                      ELSE called \cup eq_calls(s.ht,
                                      [ob EXCEPT !.psl = (@ + 1) % (2 ^ PSL_BITS)],
                                      oe, key, TRUE, p + 1, fuel - 1)
        ELSE IF ~(cb.psl < h.psl_limit) THEN called
        ELSE called \cup eq_calls(h, [cb EXCEPT !.psl = (@ + 1) % (2 ^ PSL_BITS)],
                                  ce, key, c_uniq, p + 1, fuel - 1)

\* The calls of ht->eqfn made by one sht_probe().
probe_eq_calls(h, hash, key, ce, c_uniq) ==
    eq_calls(h, [hash |-> hash % (2 ^ HASH_BITS), psl |-> 0, empty |-> 0],
             ce, key, c_uniq, hash, ProbeFuel(h))

\* Mutant of sht_probe(): the candidate bucket keeps all 32 bits of the hash.
sht_probe_full_hash(h, hash, key, ce, c_uniq) ==
    probe_loop(h, [hash |-> hash, psl |-> 0, empty |-> 0],
               ce, key, c_uniq, hash, ProbeFuel(h))

\* sht_probe(): search (ce = NULL), insert, or rehash (c_uniq).
sht_probe(h, hash, key, ce, c_uniq) ==
    probe_loop(h, [hash |-> hash % (2 ^ HASH_BITS), psl |-> 0, empty |-> 0],
               ce, key, c_uniq, hash, ProbeFuel(h))

\* ---------------------------------------------------------------- growth

RECURSIVE rehash_eq_calls(_, _, _, _)
\* The calls of ht->eqfn made by the for loop of sht_ht_grow().
rehash_eq_calls(h, old, i, n) ==
    IF i = n THEN {}
    ELSE IF old.buckets[i].empty = 1 THEN rehash_eq_calls(h, old, i + 1, n)
    ELSE LET r == sht_probe(h, old.buckets[i].hash, NULL.key, old.entries[i], TRUE)
             c == probe_eq_calls(h, old.buckets[i].hash, NULL.key,
                                 old.entries[i], TRUE)
         IN  IF r.st # "ok" \/ r.ret # -1 THEN c
             ELSE c \cup rehash_eq_calls(r.ht, old, i + 1, n)

RECURSIVE rehash_loop(_, _, _, _)
\* The for loop of sht_ht_grow(): old buckets i .. n-1 are put into h.
rehash_loop(h, old, i, n) ==
    IF i = n THEN Ret(h, 1, "ok")
    ELSE IF old.buckets[i].empty = 1 THEN rehash_loop(h, old, i + 1, n)
    ELSE LET r == sht_probe(h, old.buckets[i].hash, NULL.key, old.entries[i], TRUE)
         IN  IF r.st # "ok" THEN Ret(r.ht, 0, r.st)
             ELSE IF r.ret # -1 THEN Ret(r.ht, 0, "assert:grow")
             ELSE rehash_loop(r.ht, old, i + 1, n)

\* Mutant of sht_ht_grow(): the walk over the old buckets starts at index 1.
sht_ht_grow_skips_first(h, malloc_ok) ==
    IF h.tsize = SHT_MAX_TSIZE THEN Ret([h EXCEPT !.err = "TOOBIG"], 0, "ok")
    ELSE LET a == sht_alloc_arrays(h, h.tsize * 2, malloc_ok)
         IN  IF a.ret = 0 THEN a
             ELSE rehash_loop(a.ht, h, 1, a.ht.tsize \div 2)

\* Mutant of sht_ht_grow(): the new arrays have the size of the old ones.
sht_ht_grow_same_size(h, malloc_ok) ==
    IF h.tsize = SHT_MAX_TSIZE THEN Ret([h EXCEPT !.err = "TOOBIG"], 0, "ok")
    ELSE LET a == sht_alloc_arrays(h, h.tsize, malloc_ok)
         IN  IF a.ret = 0 THEN a
             ELSE rehash_loop(a.ht, h, 0, a.ht.tsize)

\* sht_ht_grow(): doubles the table.
sht_ht_grow(h, malloc_ok) ==
    IF h.tsize = SHT_MAX_TSIZE THEN Ret([h EXCEPT !.err = "TOOBIG"], 0, "ok")
    ELSE LET a == sht_alloc_arrays(h, h.tsize * 2, malloc_ok)
         IN  IF a.ret = 0 THEN a
             ELSE rehash_loop(a.ht, h, 0, a.ht.tsize \div 2)

\* ------------------------------------------------------------- insertion

\* Mutant of sht_insert(): the PSL-limit guard refuses new keys only (it is
\* applied after the probe, when the key turned out to be absent).
sht_insert_guard_after_probe(h, key, entry, replace, malloc_ok) ==
    IF h.tsize = 0 THEN Ret(h, -1, "abort")
    ELSE IF h.iter_lock # 0 THEN Ret(h, -1, "abort")
    ELSE LET hash == hashfn(h.hashfn, key)
             s == sht_probe(h, hash, key, NULL, FALSE)
             r == sht_probe(h, hash, key, entry, FALSE)
         IN  Hashed(
             IF s.st = "ok" /\ s.ret = -1 /\ h.max_psl_ct # 0
             THEN Ret([h EXCEPT !.err = "BAD_HASH"], -1, "ok")
             ELSE IF r.st # "ok" THEN r
             ELSE IF r.ret >= 0
             THEN IF replace
                  THEN [Ret([r.ht EXCEPT !.entries[r.ret] = entry], 1, "ok")
                           EXCEPT !.freed = IF h.freefn THEN <<r.ht.entries[r.ret]>>
                                            ELSE <<>>]
                  ELSE Ret(r.ht, 1, "ok")
             ELSE IF r.ret = -1 THEN Ret(r.ht, 0, "ok")
             ELSE LET g == sht_ht_grow(r.ht, malloc_ok)
                  IN  IF g.st # "ok" THEN g
                      ELSE IF g.ret = 0 THEN Ret(g.ht, -1, "ok")
                      ELSE LET q == sht_probe(g.ht, hash, NULL.key, entry, TRUE)
                           IN  IF q.st # "ok" THEN q
                               ELSE IF q.ret # -1 THEN Ret(q.ht, 0, "assert:insert")
                               ELSE Ret(q.ht, 0, "ok"))

\* Mutant of sht_insert(): a table at its threshold is grown before the
\* key is looked for.
sht_insert_grows_first(h, key, entry, replace, malloc_ok) ==
    IF h.tsize = 0 THEN Ret(h, -1, "abort")
    ELSE IF h.iter_lock # 0 THEN Ret(h, -1, "abort")
    ELSE IF h.max_psl_ct # 0 THEN Ret([h EXCEPT !.err = "BAD_HASH"], -1, "ok")
    ELSE LET hash == hashfn(h.hashfn, key)
             g == IF h.count = h.thold THEN sht_ht_grow(h, malloc_ok)
                  ELSE Ret(h, 1, "ok")
             r == sht_probe(g.ht, hash, key, entry, FALSE)
         IN  Hashed(
             IF g.st # "ok" THEN g
             ELSE IF g.ret = 0 THEN Ret(g.ht, -1, "ok")
             ELSE IF r.st # "ok" THEN r
             ELSE IF r.ret >= 0
             THEN IF replace
                  THEN [Ret([g.ht EXCEPT !.entries[r.ret] = entry], 1, "ok")
                           EXCEPT !.freed = IF h.freefn THEN <<g.ht.entries[r.ret]>>
                                            ELSE <<>>]
                  ELSE Ret(g.ht, 1, "ok")
             ELSE IF r.ret = -1 THEN Ret(r.ht, 0, "ok")
             ELSE Ret(r.ht, 0, "assert:insert"))

\* sht_insert(): add (replace = FALSE) or set (replace = TRUE).
sht_insert(h, key, entry, replace, malloc_ok) ==
    IF h.tsize = 0 THEN Ret(h, -1, "abort")
    ELSE IF h.iter_lock # 0 THEN Ret(h, -1, "abort")
    ELSE IF h.max_psl_ct # 0 THEN Ret([h EXCEPT !.err = "BAD_HASH"], -1, "ok")
    ELSE LET hash == hashfn(h.hashfn, key)
             r == sht_probe(h, hash, key, entry, FALSE)
         IN  Hashed(
             IF r.st # "ok" THEN r
             ELSE IF r.ret >= 0
             THEN IF replace
                  THEN [Ret([r.ht EXCEPT !.entries[r.ret] = entry], 1, "ok")
                           EXCEPT !.freed = IF h.freefn THEN <<r.ht.entries[r.ret]>>
                                            ELSE <<>>]
                  ELSE Ret(r.ht, 1, "ok")
             ELSE IF r.ret = -1 THEN Ret(r.ht, 0, "ok")
             ELSE LET g == sht_ht_grow(r.ht, malloc_ok)
                  IN  IF g.st # "ok" THEN g
                      ELSE IF g.ret = 0 THEN Ret(g.ht, -1, "ok")
                      ELSE LET q == sht_probe(g.ht, hash, NULL.key, entry, TRUE)
                           IN  IF q.st # "ok" THEN q
                               ELSE IF q.ret # -1 THEN Ret(q.ht, 0, "assert:insert")
                               ELSE Ret(q.ht, 0, "ok"))

\* Mutant of sht_add(): a duplicate key is overwritten, as by sht_set().
sht_add_replaces(h, key, entry, malloc_ok) == sht_insert(h, key, entry, TRUE, malloc_ok)

sht_add(h, key, entry, malloc_ok) == sht_insert(h, key, entry, FALSE, malloc_ok)

sht_set(h, key, entry, malloc_ok) == sht_insert(h, key, entry, TRUE, malloc_ok)

\* ---------------------------------------------------------------- lookup

\* sht_get(): `out' is the entry the returned pointer addresses (NULL: none).
sht_get(h, key) ==
    IF h.tsize = 0 THEN Ret(h, 0, "abort")
    ELSE LET r == sht_probe(h, hashfn(h.hashfn, key), key, NULL, FALSE)
         IN  Hashed(
             IF r.st # "ok" THEN r
             ELSE IF r.ret < 0
             THEN IF r.ret # -1 THEN Ret(h, 0, "assert:get") ELSE Ret(h, 0, "ok")
             ELSE [Ret(h, 1, "ok") EXCEPT !.out = h.entries[r.ret]])

sht_size(h) == IF h.tsize = 0 THEN Ret(h, 0, "abort") ELSE Ret(h, h.count, "ok")

sht_empty(h) ==
    IF h.tsize = 0 THEN Ret(h, 0, "abort")
    ELSE Ret(h, IF h.count = 0 THEN 1 ELSE 0, "ok")

\* ------------------------------------------------------- replace and swap

\* Mutant of sht_change_at(): the free function is not called.
sht_change_at_no_free(h, pos, entry, want_out) ==
    LET h1 == [h EXCEPT !.entries[pos] = entry]
    IN  IF h.buckets[pos].empty = 1 THEN Ret(h, 0, "deadread")
        ELSE IF ~want_out THEN Ret(h1, 1, "ok")
        ELSE [Ret(h1, 1, "ok") EXCEPT !.out = h.entries[pos]]

\* sht_change_at(): want_out tells whether `out' is non-NULL.
sht_change_at(h, pos, entry, want_out) ==
    LET h1 == [h EXCEPT !.entries[pos] = entry]
    IN  IF h.buckets[pos].empty = 1 THEN Ret(h, 0, "deadread")
        ELSE IF ~want_out
        THEN [Ret(h1, 1, "ok") EXCEPT !.freed = IF h.freefn THEN <<h.entries[pos]>>
                                                ELSE <<>>]
        ELSE [Ret(h1, 1, "ok") EXCEPT !.out = h.entries[pos]]

sht_change(h, key, entry, want_out) ==
    IF h.tsize = 0 THEN Ret(h, 0, "abort")
    ELSE LET r == sht_probe(h, hashfn(h.hashfn, key), key, NULL, FALSE)
         IN  Hashed(
             IF r.st # "ok" THEN r
             ELSE IF r.ret < 0
             THEN IF r.ret # -1 THEN Ret(h, 0, "assert:change") ELSE Ret(h, 0, "ok")
             ELSE sht_change_at(h, r.ret, entry, want_out))

sht_replace(h, key, entry) == sht_change(h, key, entry, FALSE)

sht_swap(h, key, entry) == sht_change(h, key, entry, TRUE)

\* --------------------------------------------------------------- deletion

\* Mutant of sht_shift(): the buckets move with their PSL as it was.
sht_shift_keeps_psl(h, dest, count) ==
    LET moved == dest .. dest + count - 1
        nlim == Cardinality({i \in moved : h.buckets[i + 1].psl = h.psl_limit})
        h1 == [h EXCEPT
                 !.entries = [i \in DOMAIN @ |-> IF i \in moved THEN @[i + 1] ELSE @[i]],
                 !.buckets = [i \in DOMAIN @ |-> IF i \in moved THEN @[i + 1] ELSE @[i]],
                 !.max_psl_ct = @ - nlim,
                 !.psl_sum = @ - count]
    IN  IF ~(dest + count < h.tsize) THEN Ret(h, 0, "assert:shift")
        ELSE IF \E i \in moved : h.buckets[i + 1].empty = 1 THEN Ret(h, 0, "deadread")
        ELSE IF nlim > h.max_psl_ct THEN Ret(h, 0, "assert:shift_ct")
        ELSE Ret(h1, 0, "ok")

\* sht_shift(): buckets and entries dest+1 .. dest+count move down by one.
sht_shift(h, dest, count) ==
    LET moved == dest .. dest + count - 1
        nlim == Cardinality({i \in moved : h.buckets[i + 1].psl = h.psl_limit})
        h1 == [h EXCEPT
                 !.entries = [i \in DOMAIN @ |-> IF i \in moved THEN @[i + 1] ELSE @[i]],
                 !.buckets = [i \in DOMAIN @ |->
                                IF i \in moved
                                THEN [@[i + 1] EXCEPT
                                        !.psl = (@ + 2 ^ PSL_BITS - 1) % (2 ^ PSL_BITS)]
                                ELSE @[i]],
                 !.max_psl_ct = @ - nlim,
                 !.psl_sum = @ - count]
    IN  IF ~(dest + count < h.tsize) THEN Ret(h, 0, "assert:shift")
        ELSE IF \E i \in moved : h.buckets[i + 1].empty = 1 THEN Ret(h, 0, "deadread")
        ELSE IF nlim > h.max_psl_ct THEN Ret(h, 0, "assert:shift_ct")
        ELSE Ret(h1, 0, "ok")

\* Mutant of sht_shift_wrap(): the entry at position 0 is not moved.
sht_shift_wrap_nomove(h) == Ret(h, 0, "ok")

\* sht_shift_wrap(): the entry at position 0 moves to the last position.
sht_shift_wrap(h) ==
    LET atlimit == h.buckets[0].psl = h.psl_limit
    IN  IF h.buckets[0].empty = 1 THEN Ret(h, 0, "deadread")
        ELSE IF atlimit /\ ~(h.max_psl_ct > 0) THEN Ret(h, 0, "assert:shift_wrap")
        ELSE Ret([h EXCEPT
                    !.entries[h.mask] = h.entries[0],
                    !.buckets[h.mask] =
                        [h.buckets[0] EXCEPT
                           !.psl = (@ + 2 ^ PSL_BITS - 1) % (2 ^ PSL_BITS)],
                    !.max_psl_ct = IF atlimit THEN @ - 1 ELSE @,
                    !.psl_sum = @ - 1], 0, "ok")

\* Mutant of find_end(): the run to shift is empty (the removed entry
\* leaves a hole).
find_end_no_run(h, end, next, fuel) == end

RECURSIVE find_end_no_wrap(_, _, _, _)
\* Mutant of find_end(): the run to shift ends at the last position of the
\* array.
find_end_no_wrap(h, end, next, fuel) ==
    IF fuel = 0 THEN -1
    ELSE IF next # 0 /\ h.buckets[next].empty = 0 /\ h.buckets[next].psl # 0
    THEN find_end_no_wrap(h, next, BitAnd(next + 1, h.mask), fuel - 1)
    ELSE end

RECURSIVE find_end_ignores_psl(_, _, _, _)
\* Mutant of find_end(): the scan stops at an empty bucket only.
find_end_ignores_psl(h, end, next, fuel) ==
    IF fuel = 0 THEN -1
    ELSE IF h.buckets[next].empty = 0
    THEN find_end_ignores_psl(h, next, BitAnd(next + 1, h.mask), fuel - 1)
    ELSE end

RECURSIVE find_end(_, _, _, _)
\* The while loop of sht_remove_at(): the last position of the run to shift,
\* or -1 when the loop does not stop.
find_end(h, end, next, fuel) ==
    IF fuel = 0 THEN -1
    ELSE IF h.buckets[next].empty = 0 /\ h.buckets[next].psl # 0
    THEN find_end(h, next, BitAnd(next + 1, h.mask), fuel - 1)
    ELSE end

\* sht_remove_at(): want_out tells whether `out' is non-NULL.
sht_remove_at(h, pos, want_out) ==
    LET h0 == [h EXCEPT !.psl_sum = @ - h.buckets[pos].psl, !.count = @ - 1]
        end == find_end(h0, pos, BitAnd(pos + 1, h0.mask), 2 * h0.tsize + 2)
        s1 == IF pos < h0.mask THEN sht_shift(h0, pos, h0.mask - pos)
              ELSE Ret(h0, 0, "ok")
        s2 == sht_shift_wrap(s1.ht)
        s3 == sht_shift(s2.ht, 0, end)
        sh == IF pos = end THEN Ret(h0, 0, "ok")
              ELSE IF pos < end THEN sht_shift(h0, pos, end - pos)
              ELSE IF s1.st # "ok" THEN s1
              ELSE IF s2.st # "ok" THEN s2
              ELSE s3
    IN  IF h.buckets[pos].empty = 1 THEN Ret(h, 0, "deadread")
        ELSE IF end = -1 THEN Ret(h, 0, "hang")
        ELSE IF sh.st # "ok" THEN Ret(h, 0, sh.st)
        ELSE [Ret([sh.ht EXCEPT !.buckets[end] = EmptyBckt,
                                !.entries[end] = JUNK], 1, "ok") EXCEPT
                 !.out = IF want_out THEN h.entries[pos] ELSE NULL,
                 !.freed = IF ~want_out /\ h.freefn THEN <<h.entries[pos]>>
                           ELSE <<>>]

\* Mutant of sht_remove(): the iterator lock is not looked at.
sht_remove_unlocked(h, key, want_out) ==
    IF h.tsize = 0 THEN Ret(h, 0, "abort")
    ELSE LET r == sht_probe(h, hashfn(h.hashfn, key), key, NULL, FALSE)
         IN  Hashed(
             IF r.st # "ok" THEN r
             ELSE IF r.ret < 0
             THEN IF r.ret # -1 THEN Ret(h, 0, "assert:remove") ELSE Ret(h, 0, "ok")
             ELSE sht_remove_at(h, r.ret, want_out))

\* sht_remove(): delete (want_out = FALSE) or pop (want_out = TRUE).
sht_remove(h, key, want_out) ==
    IF h.tsize = 0 THEN Ret(h, 0, "abort")
    ELSE IF h.iter_lock # 0 THEN Ret(h, 0, "abort")
    ELSE LET r == sht_probe(h, hashfn(h.hashfn, key), key, NULL, FALSE)
         IN  Hashed(
             IF r.st # "ok" THEN r
             ELSE IF r.ret < 0
             THEN IF r.ret # -1 THEN Ret(h, 0, "assert:remove") ELSE Ret(h, 0, "ok")
             ELSE sht_remove_at(h, r.ret, want_out))

\* Mutant of sht_pop(): the entry is not copied out (out is passed as NULL).
sht_pop_frees(h, key) == sht_remove(h, key, FALSE)

sht_pop(h, key) == sht_remove(h, key, TRUE)

sht_delete(h, key) == sht_remove(h, key, FALSE)

RECURSIVE free_loop(_, _)
\* The for loop of sht_free(): the entries of the occupied positions i and
\* up, in the order they are passed to the free function.
free_loop(h, i) ==
    IF ~(i < h.tsize) THEN <<>>
    ELSE IF h.buckets[i].empty = 0 THEN <<h.entries[i]>> \o free_loop(h, i + 1)
    ELSE free_loop(h, i + 1)

\* sht_free(): the table is gone afterwards.
sht_free(h) ==
    IF h.iter_lock # 0 THEN Ret(h, 0, "abort")
    ELSE [Ret(h, 0, "ok") EXCEPT !.freed = IF h.freefn THEN free_loop(h, 0) ELSE <<>>]

\* -------------------------------------------------------------- iterators

\* What an iterator call leaves behind: Ret() and the iterator afterwards.
IterRet(h, it, ret, st) ==
    [ht |-> h, it |-> it, ret |-> ret, st |-> st, freed |-> <<>>, out |-> NULL,
     hashed |-> 0]

\* Mutant of sht_iter_new(): the lock is taken before calloc() is known to
\* have succeeded.
sht_iter_new_locks_first(h, type, calloc_ok) ==
    LET none == [last |-> -1, err |-> "OK", type |-> type]
        lock == IF type = "ro" THEN (h.iter_lock + 1) % (UINT16_MAX + 1)
                ELSE UINT16_MAX
    IN  IF h.tsize = 0 THEN IterRet(h, none, 0, "abort")
        ELSE IF type = "ro" /\ h.iter_lock = UINT16_MAX
        THEN IterRet([h EXCEPT !.err = "ITER_LOCK"], none, 0, "ok")
        ELSE IF type = "ro" /\ lock > SHT_MAX_ITERS
        THEN IterRet([h EXCEPT !.err = "ITER_COUNT"], none, 0, "ok")
        ELSE IF type = "rw" /\ h.iter_lock # 0
        THEN IterRet([h EXCEPT !.err = "ITER_LOCK"], none, 0, "ok")
        ELSE IF ~calloc_ok
        THEN IterRet([h EXCEPT !.err = "ALLOC", !.iter_lock = lock], none, 0, "ok")
        ELSE IterRet([h EXCEPT !.iter_lock = lock], none, 1, "ok")

\* sht_iter_new(): type is "ro" or "rw"; calloc_ok is what calloc() answers.
\* ret = 0 stands for the NULL return.
sht_iter_new(h, type, calloc_ok) ==
    LET none == [last |-> -1, err |-> "OK", type |-> type]
        lock == IF type = "ro" THEN (h.iter_lock + 1) % (UINT16_MAX + 1)
                ELSE UINT16_MAX
    IN  IF h.tsize = 0 THEN IterRet(h, none, 0, "abort")
        ELSE IF type = "ro" /\ h.iter_lock = UINT16_MAX
        THEN IterRet([h EXCEPT !.err = "ITER_LOCK"], none, 0, "ok")
        ELSE IF type = "ro" /\ lock > SHT_MAX_ITERS
        THEN IterRet([h EXCEPT !.err = "ITER_COUNT"], none, 0, "ok")
        ELSE IF type = "rw" /\ h.iter_lock # 0
        THEN IterRet([h EXCEPT !.err = "ITER_LOCK"], none, 0, "ok")
        ELSE IF ~calloc_ok
        THEN IterRet([h EXCEPT !.err = "ALLOC"], none, 0, "ok")
        ELSE IterRet([h EXCEPT !.iter_lock = lock], none, 1, "ok")

RECURSIVE next_occupied(_, _)
\* The for loop of sht_iter_next(): the first occupied position >= next, or
\* h.tsize when there is none.
next_occupied(h, next) ==
    IF next < h.tsize /\ h.buckets[next].empty = 1 THEN next_occupied(h, next + 1)
    ELSE next

\* Mutant of sht_iter_next(): the scan starts at the last position again.
sht_iter_next_no_advance(h, it) ==
    IF it.last = INT32_MAX THEN IterRet(h, it, 0, "ok")
    ELSE IF ~(it.last < SHT_MAX_TSIZE) THEN IterRet(h, it, 0, "assert:iter_next")
    ELSE LET next == next_occupied(h, IF it.last = -1 THEN 0 ELSE it.last)
         IN  IF next < h.tsize
             THEN [IterRet(h, [it EXCEPT !.last = next], 1, "ok") EXCEPT
                      !.out = h.entries[next]]
             ELSE IterRet(h, [it EXCEPT !.last = INT32_MAX], 0, "ok")

\* sht_iter_next(): `out' is the entry the returned pointer addresses.
sht_iter_next(h, it) ==
    IF it.last = INT32_MAX THEN IterRet(h, it, 0, "ok")
    ELSE IF ~(it.last < SHT_MAX_TSIZE) THEN IterRet(h, it, 0, "assert:iter_next")
    ELSE LET next == next_occupied(h, IF it.last = -1 THEN 0 ELSE it.last + 1)
         IN  IF next < h.tsize
             THEN [IterRet(h, [it EXCEPT !.last = next], 1, "ok") EXCEPT
                      !.out = h.entries[next]]
             ELSE IterRet(h, [it EXCEPT !.last = INT32_MAX], 0, "ok")

\* Mutant of sht_iter_delete(): the cursor is not moved back.
sht_iter_delete_keeps_last(h, it) ==
    IF it.last = -1 \/ it.last = INT32_MAX
    THEN IterRet(h, [it EXCEPT !.err = "ITER_NO_LAST"], 0, "ok")
    ELSE IF ~(it.last >= 0 /\ it.last < h.tsize)
    THEN IterRet(h, it, 0, "assert:iter_delete_range")
    ELSE IF ~(h.buckets[it.last].empty = 0)
    THEN IterRet(h, it, 0, "assert:iter_delete_empty")
    ELSE LET r == sht_remove_at(h, it.last, FALSE)
         IN  [IterRet(r.ht, it, 1, r.st) EXCEPT !.freed = r.freed]

\* sht_iter_delete(): read/write iterators only.
sht_iter_delete(h, it) ==
    IF it.last = -1 \/ it.last = INT32_MAX
    THEN IterRet(h, [it EXCEPT !.err = "ITER_NO_LAST"], 0, "ok")
    ELSE IF ~(it.last >= 0 /\ it.last < h.tsize)
    THEN IterRet(h, it, 0, "assert:iter_delete_range")
    ELSE IF ~(h.buckets[it.last].empty = 0)
    THEN IterRet(h, it, 0, "assert:iter_delete_empty")
    ELSE LET r == sht_remove_at(h, it.last, FALSE)
         IN  [IterRet(r.ht, [it EXCEPT !.last = @ - 1], 1, r.st) EXCEPT
                 !.freed = r.freed]

\* Mutant of sht_iter_replace(): exhaustion is not recognised.
sht_iter_replace_before_only(h, it, entry) ==
    IF it.last = -1
    THEN IterRet(h, [it EXCEPT !.err = "ITER_NO_LAST"], 0, "ok")
    ELSE IF ~(it.last >= 0 /\ it.last < h.tsize)
    THEN IterRet(h, it, 0, "assert:iter_replace_range")
    ELSE IF ~(h.buckets[it.last].empty = 0)
    THEN IterRet(h, it, 0, "assert:iter_replace_empty")
    ELSE LET r == sht_change_at(h, it.last, entry, FALSE)
         IN  [IterRet(r.ht, it, 1, r.st) EXCEPT !.freed = r.freed]

\* sht_iter_replace()
sht_iter_replace(h, it, entry) ==
    IF it.last = -1 \/ it.last = INT32_MAX
    THEN IterRet(h, [it EXCEPT !.err = "ITER_NO_LAST"], 0, "ok")
    ELSE IF ~(it.last >= 0 /\ it.last < h.tsize)
    THEN IterRet(h, it, 0, "assert:iter_replace_range")
    ELSE IF ~(h.buckets[it.last].empty = 0)
    THEN IterRet(h, it, 0, "assert:iter_replace_empty")
    ELSE LET r == sht_change_at(h, it.last, entry, FALSE)
         IN  [IterRet(r.ht, it, 1, r.st) EXCEPT !.freed = r.freed]

\* Mutant of sht_iter_free(): every iterator decrements the lock.
sht_iter_free_decrements(h, it) ==
    IF ~(h.iter_lock > 0) THEN IterRet(h, it, 0, "assert:iter_free_ro")
    ELSE IterRet([h EXCEPT !.iter_lock = @ - 1], it, 0, "ok")

\* sht_iter_free()
sht_iter_free(h, it) ==
    IF it.type = "ro"
    THEN IF ~(h.iter_lock > 0 /\ h.iter_lock <= SHT_MAX_ITERS)
         THEN IterRet(h, it, 0, "assert:iter_free_ro")
         ELSE IterRet([h EXCEPT !.iter_lock = @ - 1], it, 0, "ok")
    ELSE IF ~(h.iter_lock = UINT16_MAX)
         THEN IterRet(h, it, 0, "assert:iter_free_rw")
         ELSE IterRet([h EXCEPT !.iter_lock = 0], it, 0, "ok")

\* ---------------------------------------------------------------- actions

\* The abstract map the table implements: amap[k] is the payload most
\* recently stored for k, 0 when k is absent.
Absent == 0

Entry(k, v) == [key |-> k, val |-> v]

\* The entries of a sequence, as a bag.
SeqToBag(seq) ==
    [e \in {seq[i] : i \in DOMAIN seq} |-> Cardinality({i \in DOMAIN seq : seq[i] = e})]

\* A call ended as r says; the abstract map becomes am.  `freed' collects
\* the entries the free function was called with.
CallOn(r, am) ==
    /\ status = "ok"
    /\ status' = r.st
    /\ ht' = IF r.st = "ok" THEN r.ht ELSE ht
    /\ amap' = IF r.st = "ok" THEN am ELSE amap
    /\ freed' = IF r.st = "ok" THEN freed (+) SeqToBag(r.freed) ELSE freed

\* A call on the only table.
Call(r, am) == CallOn(r, am) /\ UNCHANGED twin

\* An iterator call on iterator `it' ended as r says: the iterator is
\* replaced by its new state, or `gone' (freed).
IterCall(it, r, gone, am) ==
    /\ Call(r, am)
    /\ iters' = IF r.st # "ok" THEN iters
                ELSE IF gone THEN iters (-) SetToBag({it})
                ELSE (iters (-) SetToBag({it})) (+) SetToBag({r.it})

NoIters == iters = EmptyBag

SetFreefn(freefn) ==
    /\ ht.tsize = 0
    /\ Call(sht_set_freefn(ht, freefn), amap)
    /\ UNCHANGED iters

\* After sht_free() the table is gone and no further call is made.
Free ==
    LET r == sht_free(ht)
    IN  /\ NoIters
        /\ status = "ok"
        /\ status' = IF r.st = "ok" THEN "freed" ELSE r.st
        /\ freed' = IF r.st = "ok" THEN freed (+) SeqToBag(r.freed) ELSE freed
        /\ UNCHANGED <<ht, iters, amap, twin>>

SetLft(lft) ==
    /\ ht.tsize = 0
    /\ Call(sht_set_lft(ht, lft), amap)
    /\ UNCHANGED iters

SetPslLimit(limit) ==
    /\ ht.tsize = 0
    /\ Call(sht_set_psl_limit(ht, limit), amap)
    /\ UNCHANGED iters

Init(capacity, malloc_ok) ==
    /\ ht.tsize = 0
    /\ Call(sht_init(ht, capacity, malloc_ok), amap)
    /\ UNCHANGED iters

Add(k, v, malloc_ok) ==
    LET r == sht_add(ht, k, Entry(k, v), malloc_ok)
    IN  /\ ht.tsize # 0
        /\ NoIters
        /\ Call(r,
                IF r.ret # -1 /\ amap[k] = Absent THEN [amap EXCEPT ![k] = v] ELSE amap)
        /\ UNCHANGED iters

Set(k, v, malloc_ok) ==
    LET r == sht_set(ht, k, Entry(k, v), malloc_ok)
    IN  /\ ht.tsize # 0
        /\ NoIters
        /\ Call(r, IF r.ret # -1 THEN [amap EXCEPT ![k] = v] ELSE amap)
        /\ UNCHANGED iters

Get(k) ==
    /\ ht.tsize # 0
    /\ Call(sht_get(ht, k), amap)
    /\ UNCHANGED iters

Delete(k) ==
    /\ ht.tsize # 0
    /\ NoIters
    /\ Call(sht_delete(ht, k), [amap EXCEPT ![k] = Absent])
    /\ UNCHANGED iters

Pop(k) ==
    /\ ht.tsize # 0
    /\ NoIters
    /\ Call(sht_pop(ht, k), [amap EXCEPT ![k] = Absent])
    /\ UNCHANGED iters

Replace(k, v) ==
    /\ ht.tsize # 0
    /\ Call(sht_replace(ht, k, Entry(k, v)),
            IF amap[k] # Absent THEN [amap EXCEPT ![k] = v] ELSE amap)
    /\ UNCHANGED iters

Swap(k, v) ==
    /\ ht.tsize # 0
    /\ Call(sht_swap(ht, k, Entry(k, v)),
            IF amap[k] # Absent THEN [amap EXCEPT ![k] = v] ELSE amap)
    /\ UNCHANGED iters

IterNew(type, calloc_ok) ==
    LET r == sht_iter_new(ht, type, calloc_ok)
    IN  /\ ht.tsize # 0
        /\ BagCardinality(iters) < MaxIters
        /\ Call(r, amap)
        /\ iters' = IF r.st = "ok" /\ r.ret = 1 THEN iters (+) SetToBag({r.it})
                    ELSE iters

IterNext(it) == IterCall(it, sht_iter_next(ht, it), FALSE, amap)

\* The key of the entry at the iterator's position (0: there is none).
KeyAt(it) ==
    IF it.last >= 0 /\ it.last < ht.tsize /\ ht.buckets[it.last].empty = 0
    THEN ht.entries[it.last].key ELSE 0

IterDelete(it) ==
    /\ it.type = "rw"
    /\ IterCall(it, sht_iter_delete(ht, it), FALSE,
                [k \in DOMAIN amap |-> IF k = KeyAt(it) THEN Absent ELSE amap[k]])

\* The caller replaces an entry by one with the same key.
IterReplace(it, v) ==
    /\ IterCall(it, sht_iter_replace(ht, it, Entry(KeyAt(it), v)), FALSE,
                [k \in DOMAIN amap |-> IF k = KeyAt(it) THEN v ELSE amap[k]])

IterFree(it) == IterCall(it, sht_iter_free(ht, it), TRUE, amap)

\* --------------------------------------------------------- specifications

\* There is no second table.
NoTwin == <<>>

\* After sht_new_(): any of the hash functions, no free function.
TableInit ==
    /\ ht \in {sht_new_(fn, FALSE) : fn \in HashFns}
    /\ iters = EmptyBag
    /\ status = "ok"
    /\ amap = [k \in Keys |-> Absent]
    /\ freed = EmptyBag
    /\ twin = NoTwin

Next ==
    \/ \E lft \in LftInputs : SetLft(lft)
    \/ \E limit \in 1 .. MaxPslLimit : SetPslLimit(limit)
    \/ \E capacity \in CapInputs, malloc_ok \in BOOLEAN : Init(capacity, malloc_ok)
    \/ \E k \in Keys, v \in Vals, malloc_ok \in BOOLEAN : Add(k, v, malloc_ok)
    \/ \E k \in Keys, v \in Vals, malloc_ok \in BOOLEAN : Set(k, v, malloc_ok)
    \/ \E k \in Keys : Get(k)
    \/ \E k \in Keys : Delete(k)
    \/ \E k \in Keys : Pop(k)
    \/ \E k \in Keys, v \in Vals : Replace(k, v)
    \/ \E k \in Keys, v \in Vals : Swap(k, v)

Spec == TableInit /\ [][Next]_vars

\* The table with iterators: the calls of Next with one payload, and the
\* iterator calls.
NextIter ==
    \/ \E lft \in LftInputs : SetLft(lft)
    \/ \E limit \in 1 .. MaxPslLimit : SetPslLimit(limit)
    \/ \E capacity \in CapInputs, malloc_ok \in BOOLEAN : Init(capacity, malloc_ok)
    \/ \E k \in Keys, malloc_ok \in BOOLEAN : Add(k, 1, malloc_ok)
    \/ \E k \in Keys, malloc_ok \in BOOLEAN : Set(k, 1, malloc_ok)
    \/ \E k \in Keys : Delete(k)
    \/ \E k \in Keys : Pop(k)
    \/ \E type \in {"ro", "rw"}, calloc_ok \in BOOLEAN : IterNew(type, calloc_ok)
    \/ \E it \in BagToSet(iters) : IterNext(it)
    \/ \E it \in BagToSet(iters) : IterDelete(it)
    \/ \E it \in BagToSet(iters) : IterReplace(it, 1)
    \/ \E it \in BagToSet(iters) : IterFree(it)

SpecIter == TableInit /\ [][NextIter]_vars

\* Growth from the default configuration: one key more than the default
\* capacity, the colliding and the multiplicative hash function, the default
\* load factor threshold.
GrowKeys == 1 .. SHT_DEF_CAPCITY + 1

GrowHashFns == {"grp", "mult"}

GrowCapInputs == {0, 2}

GrowInit ==
    /\ ht \in {sht_new_(fn, FALSE) : fn \in GrowHashFns}
    /\ iters = EmptyBag
    /\ status = "ok"
    /\ amap = [k \in GrowKeys |-> Absent]
    /\ freed = EmptyBag
    /\ twin = NoTwin

NextGrow ==
    \/ \E limit \in 1 .. MaxPslLimit : SetPslLimit(limit)
    \/ \E capacity \in GrowCapInputs, malloc_ok \in BOOLEAN : Init(capacity, malloc_ok)
    \/ \E k \in GrowKeys, malloc_ok \in BOOLEAN : Add(k, 1, malloc_ok)
    \/ \E k \in GrowKeys : Delete(k)

SpecGrow == GrowInit /\ [][NextGrow]_vars

\* Iterator creation up to the reader limit: any number of iterators that
\* are created and freed, on a table of one size.
IterCreate(type, calloc_ok) ==
    LET r == sht_iter_new(ht, type, calloc_ok)
    IN  /\ ht.tsize # 0
        /\ Call(r, amap)
        /\ iters' = IF r.st = "ok" /\ r.ret = 1 THEN iters (+) SetToBag({r.it})
                    ELSE iters

NextLock ==
    \/ \E malloc_ok \in BOOLEAN : Init(2, malloc_ok)
    \/ \E type \in {"ro", "rw"}, calloc_ok \in BOOLEAN : IterCreate(type, calloc_ok)
    \/ \E it \in BagToSet(iters) : IterFree(it)

SpecLock == TableInit /\ [][NextLock]_vars

\* The table with a free function: every stored entry carries a serial
\* number that no entry in the table and no freed entry carries, so that an
\* entry passed to the free function is told apart from every other.
Ids == 1 .. MaxIds

Fresh(v) ==
    /\ \A p \in DOMAIN ht.buckets : ht.buckets[p].empty = 0 => ht.entries[p].val # v
    /\ \A e \in BagToSet(freed) : e.val # v

FreeCapInputs == {1, 2}

\* Two colliding keys and a neighbour.
FreeKeys == {1, 2, 3}

\* One iterator at a time.
IterOpen(type) == NoIters /\ IterNew(type, TRUE)

NextFree ==
    \/ \E freefn \in BOOLEAN : SetFreefn(freefn)
    \/ \E capacity \in FreeCapInputs : Init(capacity, TRUE)
    \/ \E k \in FreeKeys, v \in Ids : Fresh(v) /\ Add(k, v, TRUE)
    \/ \E k \in FreeKeys, v \in Ids : Fresh(v) /\ Set(k, v, TRUE)
    \/ \E k \in FreeKeys : Delete(k)
    \/ \E k \in FreeKeys : Pop(k)
    \/ \E k \in FreeKeys, v \in Ids : Fresh(v) /\ Replace(k, v)
    \/ \E k \in FreeKeys, v \in Ids : Fresh(v) /\ Swap(k, v)
    \/ \E type \in {"ro", "rw"} : IterOpen(type)
    \/ \E it \in BagToSet(iters) : IterNext(it)
    \/ \E it \in BagToSet(iters) : IterDelete(it)
    \/ \E it \in BagToSet(iters), v \in Ids : Fresh(v) /\ IterReplace(it, v)
    \/ \E it \in BagToSet(iters) : IterFree(it)
    \/ Free

SpecFree == TableInit /\ [][NextFree]_vars

\* The statistics of the table: a hash function under which an insertion
\* displaces an entry that is itself displaced, the add, set, delete and
\* pop calls and one read/write iterator that walks and deletes.
StatInit ==
    /\ ht = sht_new_("trio", FALSE)
    /\ iters = EmptyBag
    /\ status = "ok"
    /\ amap = [k \in Keys |-> Absent]
    /\ freed = EmptyBag
    /\ twin = NoTwin

NextStat ==
    \/ \E lft \in LftInputs : SetLft(lft)
    \/ \E limit \in 1 .. MaxPslLimit : SetPslLimit(limit)
    \/ \E capacity \in CapInputs, malloc_ok \in BOOLEAN : Init(capacity, malloc_ok)
    \/ \E k \in Keys, malloc_ok \in BOOLEAN : Add(k, 1, malloc_ok)
    \/ \E k \in Keys, malloc_ok \in BOOLEAN : Set(k, 2, malloc_ok)
    \/ \E k \in Keys : Delete(k)
    \/ \E k \in Keys : Pop(k)
    \/ IterOpen("rw")
    \/ \E it \in BagToSet(iters) : IterNext(it)
    \/ \E it \in BagToSet(iters) : IterDelete(it)
    \/ \E it \in BagToSet(iters) : IterFree(it)

SpecStat == StatInit /\ [][NextStat]_vars

\* One bucket group and its neighbours: keys A, B, C = 1, 2, 3 of one ideal
\* position and key D = 4 whose ideal position is two further, added,
\* overwritten and deleted in any order, from any initial size.
GroupCapInputs == {0, 1, 2}

\* The load factor thresholds under which four entries fit without a
\* table larger than the model allocates.
GroupLftInputs == {SHT_DEF_LFT, 100}

GroupInit ==
    /\ ht = sht_new_("gap", FALSE)
    /\ iters = EmptyBag
    /\ status = "ok"
    /\ amap = [k \in Keys |-> Absent]
    /\ freed = EmptyBag
    /\ twin = NoTwin

NextGroup ==
    \/ \E lft \in GroupLftInputs : SetLft(lft)
    \/ \E capacity \in GroupCapInputs : Init(capacity, TRUE)
    \/ \E k \in Keys, v \in Vals : Add(k, v, TRUE)
    \/ \E k \in Keys, v \in Vals : Set(k, v, TRUE)
    \/ \E k \in Keys : Get(k)
    \/ \E k \in Keys : Delete(k)

SpecGroup == GroupInit /\ [][NextGroup]_vars

\* Two tables whose hash functions agree on the low 24 bits of every key
\* and differ above, given the same calls with the same arguments: r and r2
\* are what the call does to the one and to the other, am the abstract map
\* after it.
HighBitsFn(fn) == IF fn = "same" THEN "same_hi" ELSE "grp_hi"

HashInit ==
    /\ \E fn \in HashFns :
         /\ ht = sht_new_(fn, FALSE)
         /\ twin = sht_new_(HighBitsFn(fn), FALSE)
    /\ iters = EmptyBag
    /\ status = "ok"
    /\ amap = [k \in Keys |-> Absent]
    /\ freed = EmptyBag

TwinCall(r, r2, am) ==
    /\ CallOn(r, am)
    /\ twin' = IF r.st = "ok" THEN r2.ht ELSE twin
    /\ UNCHANGED iters

NextHash ==
    \/ \E lft \in LftInputs :
         /\ ht.tsize = 0
         /\ TwinCall(sht_set_lft(ht, lft), sht_set_lft(twin, lft), amap)
    \/ \E limit \in 1 .. MaxPslLimit :
         /\ ht.tsize = 0
         /\ TwinCall(sht_set_psl_limit(ht, limit), sht_set_psl_limit(twin, limit), amap)
    \/ \E capacity \in CapInputs, malloc_ok \in BOOLEAN :
         /\ ht.tsize = 0
         /\ TwinCall(sht_init(ht, capacity, malloc_ok),
                     sht_init(twin, capacity, malloc_ok), amap)
    \/ \E k \in Keys, malloc_ok \in BOOLEAN :
         /\ ht.tsize # 0
         /\ TwinCall(sht_add(ht, k, Entry(k, 1), malloc_ok),
                     sht_add(twin, k, Entry(k, 1), malloc_ok),
                     IF sht_add(ht, k, Entry(k, 1), malloc_ok).ret # -1
                        /\ amap[k] = Absent
                     THEN [amap EXCEPT ![k] = 1] ELSE amap)
    \/ \E k \in Keys, malloc_ok \in BOOLEAN :
         /\ ht.tsize # 0
         /\ TwinCall(sht_set(ht, k, Entry(k, 2), malloc_ok),
                     sht_set(twin, k, Entry(k, 2), malloc_ok),
                     IF sht_set(ht, k, Entry(k, 2), malloc_ok).ret # -1
                     THEN [amap EXCEPT ![k] = 2] ELSE amap)
    \/ \E k \in Keys :
         /\ ht.tsize # 0
         /\ TwinCall(sht_get(ht, k), sht_get(twin, k), amap)
    \/ \E k \in Keys :
         /\ ht.tsize # 0
         /\ TwinCall(sht_delete(ht, k), sht_delete(twin, k),
                     [amap EXCEPT ![k] = Absent])
    \/ \E k \in Keys :
         /\ ht.tsize # 0
         /\ TwinCall(sht_pop(ht, k), sht_pop(twin, k), [amap EXCEPT ![k] = Absent])

SpecHash == HashInit /\ [][NextHash]_vars

\* ------------------------------------------------------------------ claims

\* The table is initialized and the process is running.
Live == status = "ok" /\ ht.tsize # 0

\* The occupied positions.
Occupied == {p \in DOMAIN ht.buckets : ht.buckets[p].empty = 0}

\* A lookup of `key' that finds `entry'.
Found(h, entry) == [Hashed(Ret(h, 1, "ok")) EXCEPT !.out = entry]

\* A lookup that reports absence and leaves the table alone.
NotFound(h) == Hashed(Ret(h, 0, "ok"))

\* C1: after any sequence of add, set, delete, pop, replace and swap calls,
\* get(k) of a present key returns the entry most recently stored for k,
\* pop(k) returns the same entry and leaves get(k) absent, and get never
\* returns an entry for a key that is absent (the table refines amap).
C1_GetPopRefineMap ==
    Live =>
      \A k \in DOMAIN amap :
        LET g == sht_get(ht, k)
            q == sht_pop(ht, k)
        IN  IF amap[k] # Absent
            THEN /\ g = Found(ht, Entry(k, amap[k]))
                 /\ q.st = "ok" /\ q.ret = 1 /\ q.out = Entry(k, amap[k])
                 /\ sht_get(q.ht, k) = NotFound(q.ht)
            ELSE g.st = "ok" => g = NotFound(ht)

\* C1 witness: a present key that was displaced from its ideal position
\* (PSL > 0) in a table that has grown, holding the second payload stored
\* for it; get and pop return it.
C1_Witness ==
    /\ Live /\ ht.lft = 100 /\ ht.tsize >= 4 /\ ht.count >= 3
    /\ \E p \in Occupied :
         /\ ht.buckets[p].psl > 0
         /\ amap[ht.entries[p].key] = 2
         /\ sht_get(ht, ht.entries[p].key).out = ht.entries[p]
         /\ sht_pop(ht, ht.entries[p].key).out = Entry(ht.entries[p].key, 2)

\* C2: in every reachable state a lookup of a key that is not present
\* completes normally and reports absence: get returns absent, and delete,
\* pop, replace and swap return false and leave the table unchanged.
C2_AbsentLookupCompletes ==
    Live =>
      \A k \in DOMAIN amap :
        amap[k] = Absent =>
          /\ sht_get(ht, k) = NotFound(ht)
          /\ sht_delete(ht, k) = NotFound(ht)
          /\ sht_pop(ht, k) = NotFound(ht)
          /\ sht_replace(ht, k, Entry(k, 1)) = NotFound(ht)
          /\ sht_swap(ht, k, Entry(k, 1)) = NotFound(ht)

\* C3 as stated: add of a key that is already present returns 1 and leaves
\* the table unchanged, in every reachable state.
C3_AddPresentReturns1 ==
    Live =>
      \A k \in DOMAIN amap, v \in Vals, malloc_ok \in BOOLEAN :
        amap[k] # Absent =>
          sht_add(ht, k, Entry(k, v), malloc_ok) = Hashed(Ret(ht, 1, "ok"))

\* C3 as amended: while max_psl_ct is 0, add of a key that is already
\* present returns 1 and leaves the table unchanged, and an add that returned
\* 0 or 1 and left max_psl_ct at 0 is followed by an add of the same key that
\* returns 1 and changes nothing; while max_psl_ct is not 0, add of a present
\* key returns -1 with error bad-hash and changes nothing else.
C3_AddPresentAmended ==
    Live =>
      \A k \in DOMAIN amap, v \in Vals, malloc_ok \in BOOLEAN :
        LET r == sht_add(ht, k, Entry(k, v), malloc_ok)
        IN  /\ amap[k] # Absent /\ ht.max_psl_ct = 0 => r = Hashed(Ret(ht, 1, "ok"))
            /\ amap[k] # Absent /\ ht.max_psl_ct # 0 =>
                  r = Ret([ht EXCEPT !.err = "BAD_HASH"], -1, "ok")
            /\ r.st = "ok" /\ r.ret >= 0 /\ r.ht.max_psl_ct = 0 =>
                  \A w \in Vals :
                    sht_add(r.ht, k, Entry(k, w), malloc_ok) = Hashed(Ret(r.ht, 1, "ok"))

\* C3 witness: a full-to-threshold table (an add of a new key would grow
\* it) in which add of a present key with another payload returns 1.
C3_Witness ==
    /\ Live /\ ht.max_psl_ct = 0 /\ ht.count = ht.thold /\ ht.count >= 2
    /\ \E k \in DOMAIN amap :
         /\ amap[k] = 1
         /\ sht_add(ht, k, Entry(k, 2), TRUE).ret = 1

\* C4: for every hash function and PSL limit, after any sequence of add, set,
\* delete, pop and iter_delete calls no occupied bucket has a PSL greater than
\* psl_limit; while some occupied bucket sits at the limit, add and set of
\* any key are refused with -1 and error bad-hash, and no add or set ends in
\* a failed assertion.
C4_PslWithinLimit ==
    Live =>
      /\ \A p \in Occupied : ht.buckets[p].psl <= ht.psl_limit
      /\ ht.iter_lock = 0 =>
            \A k \in DOMAIN amap, replace \in BOOLEAN :
              LET r == sht_insert(ht, k, Entry(k, 1), replace, TRUE)
              IN  /\ r.st = "ok"
                  /\ \A p \in DOMAIN r.ht.buckets :
                        r.ht.buckets[p].empty = 0 =>
                          r.ht.buckets[p].psl <= ht.psl_limit
                  /\ (\E p \in Occupied : ht.buckets[p].psl = ht.psl_limit) =>
                        r.ret = -1 /\ r.ht.err = "BAD_HASH"

\* C4 witness: an insert was refused with bad-hash while an entry sits at
\* the PSL limit, in a table a read/write iterator has deleted from.
C4_Witness ==
    /\ Live /\ ht.err = "BAD_HASH" /\ ht.count >= 2
    /\ \E p \in Occupied : ht.buckets[p].psl = ht.psl_limit
    /\ \E k \in DOMAIN amap : amap[k] = Absent /\ sht_get(ht, k).ret = 0
    /\ \E it \in BagToSet(iters) : it.type = "rw" /\ it.last >= 0 /\ KeyAt(it) = 0

\* C5: whenever max_psl_ct > 0 when the call starts, add and set return -1
\* with last error bad-hash without calling the hash function, and leave
\* everything else of the table (buckets, entries, tsize, statistics) as it
\* was.
C5_RefusedBeforeHash ==
    Live /\ ht.iter_lock = 0 /\ ht.max_psl_ct > 0 =>
      \A k \in DOMAIN amap, v \in Vals, malloc_ok \in BOOLEAN :
        /\ sht_add(ht, k, Entry(k, v), malloc_ok)
             = Ret([ht EXCEPT !.err = "BAD_HASH"], -1, "ok")
        /\ sht_set(ht, k, Entry(k, v), malloc_ok)
             = Ret([ht EXCEPT !.err = "BAD_HASH"], -1, "ok")

\* C5 witness: an entry sits at the PSL limit, max_psl_ct counts it, and an
\* insert has been refused with bad-hash; a set of a present key is refused.
C5_Witness ==
    /\ Live /\ ht.max_psl_ct > 0 /\ ht.err = "BAD_HASH"
    /\ \E p \in Occupied :
         /\ ht.buckets[p].psl = ht.psl_limit
         /\ sht_set(ht, ht.entries[p].key, Entry(ht.entries[p].key, 2), TRUE).ret = -1

\* C6: once no occupied bucket has PSL equal to psl_limit, an add or set of
\* a new key is not refused with bad-hash.
C6_UnblockedWithoutOffender ==
    Live /\ ht.iter_lock = 0 /\ (\A p \in Occupied : ht.buckets[p].psl # ht.psl_limit) =>
      \A k \in DOMAIN amap, v \in Vals, malloc_ok \in BOOLEAN :
        amap[k] = Absent =>
          /\ sht_add(ht, k, Entry(k, v), malloc_ok)
               # Ret([ht EXCEPT !.err = "BAD_HASH"], -1, "ok")
          /\ sht_set(ht, k, Entry(k, v), malloc_ok)
               # Ret([ht EXCEPT !.err = "BAD_HASH"], -1, "ok")

\* C7: tsize never decreases; it changes only by doubling, only in an add or
\* set of a key that was absent; right after a growth get of every key that
\* was present before returns the same entry, and count is the old count
\* plus one.
C7_GrowthDoubles ==
    [][/\ ht'.tsize >= ht.tsize
       /\ ht.tsize # 0 /\ ht'.tsize # ht.tsize =>
            /\ ht'.tsize = 2 * ht.tsize
            /\ ht'.count = ht.count + 1
            /\ \E k \in DOMAIN amap, v \in Vals :
                  /\ amap[k] = Absent
                  /\ ht' = sht_add(ht, k, Entry(k, v), TRUE).ht
                  /\ ht' = sht_set(ht, k, Entry(k, v), TRUE).ht
            /\ \A k \in DOMAIN amap :
                  amap[k] # Absent =>
                    sht_get(ht', k) = Found(ht', Entry(k, amap[k]))]_vars

\* C7 witness: with load factor threshold 100 the table is created with 2
\* buckets, so 4 buckets holding 3 entries, one of them displaced, exist only
\* after a growth.
C7_Witness ==
    /\ Live /\ ht.lft = 100 /\ ht.tsize = 4 /\ ht.count = 3
    /\ \E p \in Occupied : ht.buckets[p].psl > 0
    /\ \A k \in DOMAIN amap : amap[k] # Absent => sht_get(ht, k).ret = 1

\* C8: if an add or set needs to grow the table (the key is absent, count is
\* thold, nothing sits at the PSL limit) and the growth fails (malloc fails,
\* or tsize is already the maximum), the call returns -1, the last error is
\* too-big or alloc, and everything else of the table is as before.
C8_FailedGrowthLeavesTable ==
    Live /\ ht.iter_lock = 0 /\ ht.max_psl_ct = 0 /\ ht.count = ht.thold =>
      \A k \in DOMAIN amap, v \in Vals, replace \in BOOLEAN, malloc_ok \in BOOLEAN :
        amap[k] = Absent /\ (~malloc_ok \/ ht.tsize = SHT_MAX_TSIZE) =>
          sht_insert(ht, k, Entry(k, v), replace, malloc_ok)
            = Hashed(Ret([ht EXCEPT !.err = IF ht.tsize = SHT_MAX_TSIZE
                                            THEN "TOOBIG" ELSE "ALLOC"], -1, "ok"))

\* C8 witness: a table of the maximum size, full to its threshold, whose
\* last error is too-big: the add of a new key fails, and so does the add to
\* a smaller table when malloc fails.
C8_Witness ==
    /\ Live /\ ht.tsize = SHT_MAX_TSIZE /\ ht.count = ht.thold
    /\ ht.max_psl_ct = 0 /\ ht.err = "TOOBIG"
    /\ \E k \in DOMAIN amap :
         /\ amap[k] = Absent
         /\ sht_add(ht, k, Entry(k, 1), TRUE).ret = -1
         /\ sht_get(ht, k).ret = 0

\* C9 as stated: an add or set grows the table if and only if the key is
\* absent and count = thold when the call starts.
C9_GrowsIffAbsentAtThold ==
    Live /\ ht.iter_lock = 0 =>
      \A k \in DOMAIN amap, replace \in BOOLEAN :
        LET r == sht_insert(ht, k, Entry(k, 1), replace, TRUE)
        IN  (r.ht.tsize # ht.tsize) <=> (amap[k] = Absent /\ ht.count = ht.thold)

\* C9 as amended: an add or set grows the table if and only if the key is
\* absent, count = thold and max_psl_ct = 0 when the call starts, malloc
\* succeeds and tsize is below the maximum.  With the default load factor
\* threshold and capacity 0 the table starts with 8 buckets and thold 6;
\* while max_psl_ct is 0, an add below 6 entries leaves tsize at 8, and the
\* add of a seventh key doubles tsize to 16, after which the six keys are
\* retrievable and size is 7.
C9_GrowsIffAmended ==
    Live /\ ht.iter_lock = 0 =>
      /\ \A k \in DOMAIN amap, replace \in BOOLEAN, malloc_ok \in BOOLEAN :
            LET r == sht_insert(ht, k, Entry(k, 1), replace, malloc_ok)
            IN  (r.ht.tsize # ht.tsize) <=>
                  /\ amap[k] = Absent /\ ht.count = ht.thold /\ ht.max_psl_ct = 0
                  /\ malloc_ok /\ ht.tsize < SHT_MAX_TSIZE
      /\ ht = sht_init(sht_new_(ht.hashfn, FALSE), 0, TRUE).ht =>
            ht.tsize = 8 /\ ht.thold = 6
      /\ ht.lft = SHT_DEF_LFT /\ ht.tsize = 8 /\ ht.max_psl_ct = 0 =>
            \A k \in DOMAIN amap :
              LET r == sht_add(ht, k, Entry(k, 1), TRUE)
              IN  /\ ht.count < 6 => r.ht.tsize = 8
                  /\ ht.count = 6 /\ amap[k] = Absent =>
                        /\ r.st = "ok" /\ r.ret = 0 /\ r.ht.tsize = 16
                        /\ sht_size(r.ht).ret = 7
                        /\ \A j \in DOMAIN amap :
                              amap[j] # Absent =>
                                sht_get(r.ht, j) = Found(r.ht, Entry(j, amap[j]))

\* C9 witness: the default table after six adds and the growing seventh:
\* 16 buckets, 7 entries, keys 1 to 6 present.
C9_Witness ==
    /\ Live /\ ht.lft = SHT_DEF_LFT /\ ht.psl_limit = SHT_DEF_PSL_LIMIT
    /\ ht.tsize = 16 /\ ht.count = 7
    /\ \A k \in 1 .. 6 : sht_get(ht, k).out = Entry(k, 1)

\* The live read/write iterators.
RwLive == {it \in BagToSet(iters) : it.type = "rw"}

\* C10: iter_lock is the exclusive sentinel exactly when one read/write
\* iterator is live and no other iterator is; otherwise it is the number of
\* live read-only iterators, within 0 .. SHT_MAX_ITERS; with no live iterator
\* it is 0.
C10_IterLockCounts ==
    /\ IF RwLive # {}
       THEN BagCardinality(iters) = 1 /\ ht.iter_lock = UINT16_MAX
       ELSE ht.iter_lock = BagCardinality(iters) /\ ht.iter_lock \in 0 .. SHT_MAX_ITERS
    /\ iters = EmptyBag => ht.iter_lock = 0

\* C10 witness: every iterator has been freed again after a request was
\* refused because of the lock, and the table is unlocked.
C10_Witness ==
    /\ Live /\ ht.err = "ITER_LOCK" /\ iters = EmptyBag /\ ht.iter_lock = 0
    /\ ht.count >= 1

\* A creation that failed with error e: no iterator, only the last error of
\* the table changes.
IterRefused(r, e) == r.st = "ok" /\ r.ret = 0 /\ r.ht = [ht EXCEPT !.err = e]

\* C11: creating a read-only iterator fails with iter-lock when a read/write
\* iterator exists and with iter-count when SHT_MAX_ITERS read-only
\* iterators exist, otherwise it succeeds and increments the reader count;
\* creating a read/write iterator fails with iter-lock when any iterator
\* exists; a failed creation (also by allocation failure) returns no
\* iterator, sets the last error and leaves iter_lock unchanged.
C11_IterNewOutcomes ==
    Live =>
      \A calloc_ok \in BOOLEAN :
        LET ro == sht_iter_new(ht, "ro", calloc_ok)
            rw == sht_iter_new(ht, "rw", calloc_ok)
        IN  /\ IF RwLive # {} THEN IterRefused(ro, "ITER_LOCK")
               ELSE IF BagCardinality(iters) = SHT_MAX_ITERS
               THEN IterRefused(ro, "ITER_COUNT")
               ELSE IF ~calloc_ok THEN IterRefused(ro, "ALLOC")
               ELSE /\ ro.st = "ok" /\ ro.ret = 1
                    /\ ro.ht = [ht EXCEPT !.iter_lock = BagCardinality(iters) + 1]
                    /\ ro.it = [last |-> -1, err |-> "OK", type |-> "ro"]
            /\ IF iters # EmptyBag THEN IterRefused(rw, "ITER_LOCK")
               ELSE IF ~calloc_ok THEN IterRefused(rw, "ALLOC")
               ELSE /\ rw.st = "ok" /\ rw.ret = 1
                    /\ rw.ht = [ht EXCEPT !.iter_lock = UINT16_MAX]
                    /\ rw.it = [last |-> -1, err |-> "OK", type |-> "rw"]

\* C11 witness: SHT_MAX_ITERS read-only iterators exist and one more was
\* refused with iter-count.
C11_Witness ==
    /\ Live /\ ht.err = "ITER_COUNT"
    /\ BagCardinality(iters) = SHT_MAX_ITERS /\ ht.iter_lock = SHT_MAX_ITERS

\* C12: while any iterator exists, add, set, delete, pop and free end in
\* sht_abort() with the table as it was, whereas get, size, empty, replace
\* and swap do not abort: size and empty answer, and get, replace and swap
\* of a present key succeed.
C12_IteratorsForbidMutation ==
    Live /\ iters # EmptyBag =>
      /\ sht_free(ht) = Ret(ht, 0, "abort")
      /\ sht_size(ht) = Ret(ht, ht.count, "ok")
      /\ sht_empty(ht) = Ret(ht, IF ht.count = 0 THEN 1 ELSE 0, "ok")
      /\ \A k \in DOMAIN amap, v \in Vals, malloc_ok \in BOOLEAN :
           /\ sht_add(ht, k, Entry(k, v), malloc_ok) = Ret(ht, -1, "abort")
           /\ sht_set(ht, k, Entry(k, v), malloc_ok) = Ret(ht, -1, "abort")
      /\ \A k \in DOMAIN amap :
           LET g == sht_get(ht, k)
               c == sht_replace(ht, k, Entry(k, 2))
               w == sht_swap(ht, k, Entry(k, 2))
           IN  /\ sht_delete(ht, k) = Ret(ht, 0, "abort")
               /\ sht_pop(ht, k) = Ret(ht, 0, "abort")
               /\ g.st # "abort" /\ c.st # "abort" /\ w.st # "abort"
               /\ amap[k] # Absent =>
                    /\ g = Found(ht, Entry(k, amap[k]))
                    /\ c.st = "ok" /\ c.ret = 1
                    /\ w.st = "ok" /\ w.out = Entry(k, amap[k])

\* C12 witness: two read-only iterators are open on a table that holds
\* entries; add aborts and get answers.
C12_Witness ==
    /\ Live /\ ht.iter_lock = 2 /\ BagCardinality(iters) = 2 /\ ht.count >= 1
    /\ \E k \in DOMAIN amap :
         /\ amap[k] # Absent
         /\ sht_add(ht, k, Entry(k, 1), TRUE).st = "abort"
         /\ sht_get(ht, k).ret = 1

RECURSIVE Drain(_, _, _)
\* The entries an iterator returns from now on, up to the first absent.
Drain(h, it, fuel) ==
    LET r == sht_iter_next(h, it)
    IN  IF fuel = 0 \/ r.st # "ok" \/ r.ret = 0 THEN <<>>
        ELSE <<r.out>> \o Drain(h, r.it, fuel - 1)

RECURSIVE Drained(_, _, _)
\* The iterator after the call that returned the first absent.
Drained(h, it, fuel) ==
    LET r == sht_iter_next(h, it)
    IN  IF fuel = 0 \/ r.st # "ok" \/ r.ret = 0 THEN r.it
        ELSE Drained(h, r.it, fuel - 1)

RECURSIVE Ascending(_, _)
\* The entries at the positions of the set P, by ascending position.
Ascending(h, P) ==
    IF P = {} THEN <<>>
    ELSE LET p == CHOOSE q \in P : \A o \in P : q <= o
         IN  <<h.entries[p]>> \o Ascending(h, P \ {p})

\* C13: as long as no entry is deleted, every open iterator, whatever the
\* other iterators have done, returns from its position on each occupied
\* entry once, by ascending bucket index, then absent on that call and on
\* every later one; a fresh iterator returns all `count' entries.  A next
\* call changes neither the table nor another iterator.
C13_IterationVisitsEachOnce ==
    Live =>
      \A it \in BagToSet(iters) \cup {[last |-> -1, err |-> "OK", type |-> "ro"]} :
        LET rest == {p \in Occupied : it.last # INT32_MAX /\ p > it.last}
            end  == Drained(ht, it, ht.tsize + 1)
            r    == sht_iter_next(ht, it)
        IN  /\ r.st = "ok" /\ r.ht = ht
            /\ Drain(ht, it, ht.tsize + 1) = Ascending(ht, rest)
            /\ it.last = -1 => Len(Drain(ht, it, ht.tsize + 1)) = ht.count
            /\ end.last = INT32_MAX
            /\ sht_iter_next(ht, end) = IterRet(ht, end, 0, "ok")

\* C13 witness: two read-only iterators are open on a table of at least
\* three entries, one exhausted, the other in the middle of its iteration.
C13_Witness ==
    /\ Live /\ ht.count >= 3 /\ ht.iter_lock = 2
    /\ \E a, b \in BagToSet(iters) :
         /\ a.last = INT32_MAX
         /\ b.last >= 0 /\ b.last < ht.tsize
         /\ Len(Drain(ht, b, ht.tsize + 1)) = 1

\* The entries held by table h.
Held(h) == {h.entries[p] : p \in {q \in DOMAIN h.buckets : h.buckets[q].empty = 0}}

\* C14: iter_delete right after a next that returned e removes exactly e:
\* count drops by one, the other entries stay retrievable, and the free
\* function, if set, is called once, with e.  The following next returns the
\* entry that was shifted back into e's position, if any, and otherwise goes
\* on behind it.  On a table of three keys next, delete, next, next, next
\* ends with absent, leaves size 2 and has called the free function once.
C14_IterDeleteRemovesLast ==
    Live =>
      /\ \A it \in RwLive :
           LET n == sht_iter_next(ht, it)
               d == sht_iter_delete(n.ht, n.it)
               m == sht_iter_next(d.ht, d.it)
               pos == n.it.last
           IN  n.ret = 1 =>
                 /\ d.st = "ok" /\ d.ret = 1
                 /\ d.ht.count = ht.count - 1
                 /\ Held(d.ht) = Held(ht) \ {n.out}
                 /\ d.freed = IF ht.freefn THEN <<n.out>> ELSE <<>>
                 /\ \A e \in Held(d.ht) : sht_get(d.ht, e.key) = Found(d.ht, e)
                 /\ sht_get(d.ht, n.out.key) = NotFound(d.ht)
                 /\ m.st = "ok"
                 /\ IF d.ht.buckets[pos].empty = 0
                    THEN /\ m.ret = 1 /\ m.it.last = pos
                         /\ m.out = ht.entries[BitAnd(pos + 1, ht.mask)]
                    ELSE m.ret = 1 => m.it.last > pos
      /\ ht.iter_lock = 0 /\ ht.count = 3 =>
           LET i0 == sht_iter_new(ht, "rw", TRUE)
               n1 == sht_iter_next(i0.ht, i0.it)
               d  == sht_iter_delete(n1.ht, n1.it)
               n2 == sht_iter_next(d.ht, d.it)
               n3 == sht_iter_next(n2.ht, n2.it)
               n4 == sht_iter_next(n3.ht, n3.it)
           IN  /\ n1.ret = 1 /\ d.ret = 1 /\ n2.ret = 1 /\ n3.ret = 1
               /\ n4.st = "ok" /\ n4.ret = 0
               /\ sht_size(n4.ht).ret = 2
               /\ Len(n1.freed \o d.freed \o n2.freed \o n3.freed \o n4.freed)
                    = IF ht.freefn THEN 1 ELSE 0
               /\ {n2.out, n3.out} = Held(ht) \ {n1.out}

\* C14 witness: a read/write iterator of a table with a free function has
\* deleted an entry (the free function was called once), stands before the
\* entry that was shifted back, and a next and delete from here free that
\* entry.
C14_Witness ==
    /\ Live /\ ht.freefn /\ ht.count = 2 /\ BagCardinality(freed) = 1
    /\ \E it \in RwLive :
         LET n == sht_iter_next(ht, it)
         IN  /\ it.last < ht.tsize - 1
             /\ ht.buckets[it.last + 1].empty = 0
             /\ \A e \in BagToSet(freed) : amap[e.key] = Absent
             /\ n.ret = 1 /\ n.it.last = it.last + 1
             /\ sht_iter_delete(n.ht, n.it).freed = <<n.out>>

\* An iterator call that was refused with iter-no-last: false is returned,
\* the iterator's error is set, its cursor and the table are as before.
NoLast(r, it) == r = IterRet(ht, [it EXCEPT !.err = "ITER_NO_LAST"], 0, "ok")

\* C15: iter_delete and iter_replace on an iterator as it was created (no
\* next yet), or on an iterator whose next has reported exhaustion, return
\* false, set the iterator's error to iter-no-last and leave the table and
\* the cursor unchanged.
C15_NoLastRefused ==
    Live =>
      /\ \A type \in {"ro", "rw"}, k \in DOMAIN amap :
           LET c == sht_iter_new(ht, type, TRUE)
           IN  c.ret = 1 =>
                 /\ NoLast(sht_iter_replace(ht, c.it, Entry(k, 1)), c.it)
                 /\ type = "rw" => NoLast(sht_iter_delete(ht, c.it), c.it)
      /\ \A it \in BagToSet(iters), k \in DOMAIN amap :
           LET end == Drained(ht, it, ht.tsize + 1)
           IN  /\ NoLast(sht_iter_replace(ht, end, Entry(k, 1)), end)
               /\ it.type = "rw" => NoLast(sht_iter_delete(ht, end), end)

\* C15 witness: an exhausted iterator on a table that holds entries was
\* refused with iter-no-last.
C15_Witness ==
    /\ Live /\ ht.count >= 2
    /\ \E it \in BagToSet(iters) :
         /\ it.last = INT32_MAX /\ it.err = "ITER_NO_LAST"
         /\ sht_iter_next(ht, it).ret = 0

\* ------------------------------------------------- initial size (sht_init)

\* SHT_MAX_TSIZE as the source defines it: 1 << 24.
SHT_MAX_TSIZE_FULL == 2 ^ 24

\* The largest capacity sht_init() accepts at the default load factor
\* threshold, as the README gives it.
MaxUsableCapacity == 14260633

\* The capacities sht_init() is called with under a load factor threshold
\* of lft: the small ones, the ones around every place where the table size
\* changes, and the ones around the maximum.
SizeCaps(lft) ==
    ({0, 1, 2, 3, 5, 6, 7, MaxUsableCapacity, MaxUsableCapacity + 1,
      SHT_MAX_TSIZE_FULL - 1, SHT_MAX_TSIZE_FULL, SHT_MAX_TSIZE_FULL + 1}
     \cup {(2 ^ k * lft) \div 100 + d : k \in 0 .. 24, d \in -1 .. 2})
    \cap (0 .. SHT_MAX_TSIZE_FULL + 1)

\* sht_init() with the source's maximum table size.  Arrays of more than
\* SHT_MAX_TSIZE buckets (the size the model can hold) are never granted
\* by malloc().
InitMax(capacity, malloc_ok) ==
    /\ ht.tsize = 0
    /\ malloc_ok =>
         sht_init_tsize(capacity, ht.lft, SHT_MAX_TSIZE_FULL) <= SHT_MAX_TSIZE
    /\ Call(sht_init_max(ht, capacity, malloc_ok, SHT_MAX_TSIZE_FULL), amap)
    /\ UNCHANGED iters

NextSize ==
    \/ \E lft \in 1 .. 100 : SetLft(lft)
    \/ \E capacity \in SizeCaps(ht.lft), malloc_ok \in BOOLEAN :
         InitMax(capacity, malloc_ok)

SpecSize == TableInit /\ [][NextSize]_vars

\* ceil(capacity * 100 / lft), capacity 0 standing for the default.
Needed(capacity, lft) ==
    LET c == IF capacity = 0 THEN SHT_DEF_CAPCITY ELSE capacity
        q == (c * 100) \div lft
    IN  IF q * lft = c * 100 THEN q ELSE q + 1

\* The smallest power of two >= n that is at most the maximum table size,
\* or 0 when there is none.
SmallestPow2(n) ==
    LET fits == {p \in {2 ^ k : k \in 0 .. 24} : p >= n}
    IN  IF fits = {} THEN 0
        ELSE CHOOSE p \in fits : \A q \in fits : p <= q

\* What sht_init(capacity) is expected to do to an uninitialized table h
\* from the table size it is expected to choose: too-big when there is
\* none, else the arrays of that size when malloc() grants them.
InitOutcome(h, capacity, want) ==
    LET r == sht_init_max(h, capacity, want <= SHT_MAX_TSIZE, SHT_MAX_TSIZE_FULL)
    IN  /\ sht_init_tsize(capacity, h.lft, SHT_MAX_TSIZE_FULL) = want
        /\ IF want = 0
           THEN r = Ret([h EXCEPT !.err = "TOOBIG"], 0, "ok")
           ELSE IF want <= SHT_MAX_TSIZE
           THEN /\ r.st = "ok" /\ r.ret = 1
                /\ r.ht.tsize = want /\ r.ht.mask = want - 1
                /\ r.ht.thold = (want * h.lft) \div 100
                /\ DOMAIN r.ht.buckets = 0 .. want - 1
           ELSE r = Ret([h EXCEPT !.err = "ALLOC"], 0, "ok")

\* C18 as stated: for every capacity in 0..2^24 and every lft, init sets
\* tsize to the smallest power of two >= ceil(capacity*100/lft) (capacity 0
\* taken as 6) when that is at most 2^24 and otherwise fails with too-big
\* leaving the table uninitialized; at the default lft the largest capacity
\* that initializes is 14,260,633.
C18_InitSizeFromCapacity ==
    status = "ok" /\ ht.tsize = 0 =>
      /\ \A capacity \in SizeCaps(ht.lft) \cap (0 .. SHT_MAX_TSIZE_FULL) :
           InitOutcome(ht, capacity, SmallestPow2(Needed(capacity, ht.lft)))
      /\ ht.lft = SHT_DEF_LFT =>
           \A capacity \in SizeCaps(ht.lft) \ {0} :
             sht_init_tsize(capacity, ht.lft, SHT_MAX_TSIZE_FULL) # 0
               <=> capacity <= MaxUsableCapacity

\* C19 as stated: init with capacity 0 initializes to the default size,
\* init with capacity 2^24 initializes, init with capacity 2^24 + 1 returns
\* too-big.
C19_MaxCapacityInitializes ==
    status = "ok" /\ ht.tsize = 0 =>
      /\ InitOutcome(ht, 0, SmallestPow2(Needed(SHT_DEF_CAPCITY, ht.lft)))
      /\ sht_init_tsize(SHT_MAX_TSIZE_FULL, ht.lft, SHT_MAX_TSIZE_FULL) # 0
      /\ InitOutcome(ht, SHT_MAX_TSIZE_FULL + 1, 0)

\* C19 as amended: init with capacity 0 does what init with the default
\* capacity 6 does (a table of 8 at the default lft); init with capacity
\* 2^24 gets as far as the allocation of 2^24 buckets only when lft is 100
\* and returns too-big for every smaller lft, the default 85 included; init
\* with capacity 2^24 + 1 returns too-big for every lft.  A refused init
\* changes nothing but err.
C19_MaxCapacityNeedsFullLft ==
    status = "ok" /\ ht.tsize = 0 =>
      /\ InitOutcome(ht, 0, SmallestPow2(Needed(SHT_DEF_CAPCITY, ht.lft)))
      /\ \A malloc_ok \in BOOLEAN :
           sht_init_max(ht, 0, malloc_ok, SHT_MAX_TSIZE_FULL)
             = sht_init_max(ht, SHT_DEF_CAPCITY, malloc_ok, SHT_MAX_TSIZE_FULL)
      /\ ht.lft = SHT_DEF_LFT =>
           sht_init_max(ht, 0, TRUE, SHT_MAX_TSIZE_FULL).ht.tsize = 8
      /\ InitOutcome(ht, SHT_MAX_TSIZE_FULL,
                     IF ht.lft = 100 THEN SHT_MAX_TSIZE_FULL ELSE 0)
      /\ InitOutcome(ht, SHT_MAX_TSIZE_FULL + 1, 0)

\* C19 witness: at the default lft an init was refused as too big, the
\* table is still uninitialized, and from here capacity 2^24 is refused
\* again while capacity 0 gives a table of 8.
C19_Witness ==
    /\ status = "ok" /\ ht.tsize = 0
    /\ ht.lft = SHT_DEF_LFT /\ ht.err = "TOOBIG"
    /\ sht_init_max(ht, SHT_MAX_TSIZE_FULL, TRUE, SHT_MAX_TSIZE_FULL).ret = 0
    /\ sht_init_max(ht, 0, TRUE, SHT_MAX_TSIZE_FULL).ret = 1

\* What the free function is called with when entry e leaves the table
\* without being handed to the caller.
FreedOnce(e) == IF ht.freefn THEN <<e>> ELSE <<>>

\* C16: with a free function, it is called once for the entry removed by
\* delete or iter_delete or overwritten by set, and once for each entry
\* present when the table is freed; pop and swap do not call it, nor does an
\* add or set of a new key (displacement, growth) or the shift after a
\* removal call it for the entries they move; no entry is passed to it twice,
\* and no entry passed to it is still in the table.  Without a free
\* function nothing is called.
C16_FreeFnOncePerRemoval ==
    /\ \A e \in BagToSet(freed) : CopiesIn(e, freed) = 1
    /\ ~ht.freefn => freed = EmptyBag
    /\ status = "freed" /\ ht.freefn => Held(ht) \subseteq BagToSet(freed)
    /\ Live =>
         /\ Held(ht) \cap BagToSet(freed) = {}
         /\ ht.iter_lock = 0 =>
              /\ SeqToBag(sht_free(ht).freed)
                   = IF ht.freefn THEN SetToBag(Held(ht)) ELSE EmptyBag
              /\ \A k \in DOMAIN amap :
                   LET old == Entry(k, amap[k])
                       new == Entry(k, 1)
                   IN  IF amap[k] # Absent
                       THEN /\ sht_delete(ht, k).freed = FreedOnce(old)
                            /\ sht_set(ht, k, new, TRUE).freed = FreedOnce(old)
                            /\ sht_add(ht, k, new, TRUE).freed = <<>>
                            /\ sht_pop(ht, k).freed = <<>>
                            /\ sht_swap(ht, k, new).freed = <<>>
                       ELSE /\ sht_delete(ht, k).freed = <<>>
                            /\ sht_set(ht, k, new, TRUE).freed = <<>>
                            /\ sht_add(ht, k, new, TRUE).freed = <<>>
                            /\ sht_pop(ht, k).freed = <<>>
                            /\ sht_swap(ht, k, new).freed = <<>>
         /\ \A it \in RwLive :
              LET n == sht_iter_next(ht, it)
              IN  n.ret = 1 =>
                    /\ n.freed = <<>>
                    /\ sht_iter_delete(n.ht, n.it).freed = FreedOnce(n.out)

\* C16 witness: a table with a free function was freed while it held
\* entries, after an entry had been freed by an earlier removal or
\* overwrite; each of them was passed to the free function once.
C16_Witness ==
    /\ status = "freed" /\ ht.freefn /\ ht.count >= 2
    /\ BagCardinality(freed) = ht.count + 1
    /\ Held(ht) \subseteq BagToSet(freed)
    /\ \E p \in Occupied : ht.buckets[p].psl > 0

\* The position that holds key k.
PosOf(k) == CHOOSE p \in Occupied : ht.entries[p].key = k

\* C17 as stated: a successful replace and a successful iter_replace
\* overwrite the entry in place without calling the free function.
C17_ReplaceDoesNotFree ==
    Live =>
      /\ \A k \in DOMAIN amap :
           amap[k] # Absent =>
             LET r == sht_replace(ht, k, Entry(k, 1))
             IN  /\ r.st = "ok" /\ r.ret = 1 /\ r.freed = <<>>
                 /\ r.ht = [ht EXCEPT !.entries[PosOf(k)] = Entry(k, 1)]
      /\ \A it \in BagToSet(iters) :
           it.last \in Occupied =>
             LET r == sht_iter_replace(ht, it, Entry(KeyAt(it), 1))
             IN  /\ r.st = "ok" /\ r.ret = 1 /\ r.freed = <<>>
                 /\ r.ht = [ht EXCEPT !.entries[it.last] = Entry(KeyAt(it), 1)]

\* C17 as amended: a successful replace and a successful iter_replace
\* overwrite the stored entry in place (nothing else of the table and
\* nothing of the iterator changes) and call the free function, when one is
\* set, exactly once, with the entry that is overwritten; without a free
\* function nothing is called.
C17_ReplaceFreesOverwritten ==
    Live =>
      /\ \A k \in DOMAIN amap :
           amap[k] # Absent =>
             LET r == sht_replace(ht, k, Entry(k, 1))
             IN  /\ r.st = "ok" /\ r.ret = 1
                 /\ r.freed = FreedOnce(Entry(k, amap[k]))
                 /\ r.ht = [ht EXCEPT !.entries[PosOf(k)] = Entry(k, 1)]
      /\ \A it \in BagToSet(iters) :
           it.last \in Occupied =>
             LET r == sht_iter_replace(ht, it, Entry(KeyAt(it), 1))
             IN  /\ r.st = "ok" /\ r.ret = 1 /\ r.it = it
                 /\ r.freed = FreedOnce(ht.entries[it.last])
                 /\ r.ht = [ht EXCEPT !.entries[it.last] = Entry(KeyAt(it), 1)]

\* C17 witness: in a table with a free function an entry was overwritten
\* through an iterator standing on it: the entry was passed to the free
\* function and its key holds another entry.
C17_Witness ==
    /\ Live /\ ht.freefn
    /\ \E it \in BagToSet(iters), e \in BagToSet(freed) :
         /\ it.last \in Occupied
         /\ KeyAt(it) = e.key
         /\ ht.entries[it.last].val # e.val
         /\ sht_replace(ht, e.key, e).freed = <<ht.entries[it.last]>>

\* The call aborted the program.
Aborts(r) == r.st = "abort"

\* C20: on an initialized table the configuration setters and init abort;
\* on a table that is not initialized add, set, get, size, empty, delete,
\* pop, replace, swap and iterator creation abort while the setters are
\* accepted; a failed init changes nothing but err and leaves tsize 0, so
\* that init is accepted again; after a successful init every further init
\* aborts.
C20_Lifecycle ==
    status = "ok" =>
      /\ ht.tsize # 0 =>
           /\ \A lft \in LftInputs : Aborts(sht_set_lft(ht, lft))
           /\ \A limit \in 1 .. MaxPslLimit : Aborts(sht_set_psl_limit(ht, limit))
           /\ \A freefn \in BOOLEAN : Aborts(sht_set_freefn(ht, freefn))
           /\ \A capacity \in CapInputs \cup {0}, malloc_ok \in BOOLEAN :
                Aborts(sht_init(ht, capacity, malloc_ok))
      /\ ht.tsize = 0 =>
           /\ \A lft \in LftInputs : ~Aborts(sht_set_lft(ht, lft))
           /\ \A limit \in 1 .. MaxPslLimit : ~Aborts(sht_set_psl_limit(ht, limit))
           /\ \A freefn \in BOOLEAN : ~Aborts(sht_set_freefn(ht, freefn))
           /\ Aborts(sht_size(ht)) /\ Aborts(sht_empty(ht))
           /\ \A type \in {"ro", "rw"}, calloc_ok \in BOOLEAN :
                Aborts(sht_iter_new(ht, type, calloc_ok))
           /\ \A k \in Keys :
                /\ Aborts(sht_get(ht, k))
                /\ Aborts(sht_delete(ht, k))
                /\ Aborts(sht_pop(ht, k))
                /\ Aborts(sht_replace(ht, k, Entry(k, 1)))
                /\ Aborts(sht_swap(ht, k, Entry(k, 1)))
                /\ \A malloc_ok \in BOOLEAN :
                     /\ Aborts(sht_add(ht, k, Entry(k, 1), malloc_ok))
                     /\ Aborts(sht_set(ht, k, Entry(k, 1), malloc_ok))
           /\ \A capacity \in CapInputs \cup {0}, malloc_ok \in BOOLEAN :
                LET r == sht_init(ht, capacity, malloc_ok)
                IN  /\ ~Aborts(r)
                    /\ r.ret \in {0, 1}
                    /\ r.ret = 0 =>
                         /\ r.ht.tsize = 0
                         /\ r.ht.err \in {"TOOBIG", "ALLOC"}
                         /\ r.ht = [ht EXCEPT !.err = r.ht.err]
                         /\ \A c2 \in CapInputs, m2 \in BOOLEAN :
                              ~Aborts(sht_init(r.ht, c2, m2))
                    /\ r.ret = 1 =>
                         /\ r.ht.tsize # 0
                         /\ \A c2 \in CapInputs \cup {0}, m2 \in BOOLEAN :
                              Aborts(sht_init(r.ht, c2, m2))

\* C20 witness: an init was refused as too big, a later one succeeded: the table is
\* initialized at its initial size, still empty, with the error of the
\* failed init; a further init of it aborts.
C20_Witness ==
    /\ Live /\ ht.tsize = 2 /\ ht.count = 0 /\ ht.peak_psl = 0
    /\ ht.err = "TOOBIG"
    /\ Aborts(sht_init(ht, 1, TRUE))

\* Tables h and h2 differ in nothing but the hash function.
SameTable(h, h2) == h2 = [h EXCEPT !.hashfn = h2.hashfn]

\* Calls that ended as r on one table and as r2 on the other returned the
\* same, ended the same way and left tables that differ in nothing but the
\* hash function.
SameResult(r, r2) ==
    /\ r.ret = r2.ret /\ r.st = r2.st /\ r.out = r2.out
    /\ SameTable(r.ht, r2.ht)

\* C21: two tables whose hash functions agree on the low 24 bits of every
\* key, given the same sequence of calls, hold the same bucket and entry
\* arrays and the same statistics, and every call returns the same on both.
C21_HighBitsIgnored ==
    status = "ok" =>
      /\ SameTable(ht, twin)
      /\ ht.hashfn # twin.hashfn
      /\ \A k \in Keys :
           hashfn(ht.hashfn, k) % 2 ^ HASH_BITS = hashfn(twin.hashfn, k) % 2 ^ HASH_BITS
      /\ ht.tsize # 0 =>
           \A k \in Keys :
             /\ SameResult(sht_get(ht, k), sht_get(twin, k))
             /\ SameResult(sht_delete(ht, k), sht_delete(twin, k))
             /\ SameResult(sht_pop(ht, k), sht_pop(twin, k))
             /\ SameResult(sht_replace(ht, k, Entry(k, 2)),
                           sht_replace(twin, k, Entry(k, 2)))
             /\ SameResult(sht_swap(ht, k, Entry(k, 2)),
                           sht_swap(twin, k, Entry(k, 2)))
             /\ \A malloc_ok \in BOOLEAN :
                  /\ SameResult(sht_add(ht, k, Entry(k, 1), malloc_ok),
                                sht_add(twin, k, Entry(k, 1), malloc_ok))
                  /\ SameResult(sht_set(ht, k, Entry(k, 2), malloc_ok),
                                sht_set(twin, k, Entry(k, 2), malloc_ok))

\* C21 witness: the two tables have grown and hold a displaced entry whose
\* hash values differ above bit 23; the buckets are the same.
C21_Witness ==
    /\ status = "ok" /\ ht.tsize >= 4 /\ ht.count >= 3
    /\ twin.buckets = ht.buckets
    /\ \E p \in DOMAIN ht.buckets :
         /\ ht.buckets[p].empty = 0 /\ ht.buckets[p].psl > 0
         /\ hashfn(ht.hashfn, ht.entries[p].key)
              # hashfn(twin.hashfn, ht.entries[p].key)

\* The occupied positions whose PSL is the PSL limit.
AtLimit == {p \in Occupied : ht.buckets[p].psl = ht.psl_limit}

\* C22: at every quiescent point after any sequence of add, set, delete,
\* pop (and iter_delete) calls, max_psl_ct is the number of occupied buckets
\* whose PSL equals psl_limit.
C22_MaxPslCtCounts ==
    Live => ht.max_psl_ct = Cardinality(AtLimit)

\* C23: the assertion of the probe loop that the candidate's PSL is below
\* psl_limit before it is incremented never fails, in any probe mode and
\* any reachable table.
C23_ProbeAssertHolds ==
    status # "assert:probe"

\* The largest PSL among the occupied buckets of h (0 when there is none).
MaxPsl(h) ==
    LET psls == {h.buckets[p].psl : p \in {q \in DOMAIN h.buckets : h.buckets[q].empty = 0}}
    IN  IF psls = {} THEN 0 ELSE CHOOSE m \in psls : \A x \in psls : x <= m

\* C24: after every successful add or set the largest PSL among the
\* occupied buckets is at most the largest PSL before the call plus one,
\* whether the call displaces entries, grows the table or overwrites.
C24_PeakRisesByOne ==
    Live =>
      \A k \in DOMAIN amap, malloc_ok \in BOOLEAN :
        LET a == sht_add(ht, k, Entry(k, 1), malloc_ok)
            s == sht_set(ht, k, Entry(k, 1), malloc_ok)
        IN  /\ a.st = "ok" /\ a.ret # -1 => MaxPsl(a.ht) <= MaxPsl(ht) + 1
            /\ s.st = "ok" /\ s.ret # -1 => MaxPsl(s.ht) <= MaxPsl(ht) + 1

\* C24 witness: a table in which the add of a new key displaces entries
\* (an entry that was in the table has moved) and raises the largest PSL by
\* exactly one.
C24_Witness ==
    /\ Live /\ ht.count >= 3
    /\ \E k \in DOMAIN amap :
         LET a == sht_add(ht, k, Entry(k, 1), TRUE)
         IN  /\ amap[k] = Absent
             /\ a.st = "ok" /\ a.ret = 0
             /\ a.ht.tsize = ht.tsize
             /\ \E p \in Occupied : a.ht.entries[p] # ht.entries[p]
             /\ MaxPsl(a.ht) = MaxPsl(ht) + 1

\* The ideal position of the occupant of p: its stored hash, masked.
Ideal(p) == BitAnd(ht.buckets[p].hash, ht.mask)

\* The position before p, in wrapped order.
Before(p) == (p + ht.tsize - 1) % ht.tsize

\* The positions that differ between table h and the table h2 a call left.
Moved(h, h2) == {p \in DOMAIN h.buckets : h.entries[p] # h2.entries[p]}

\* C25: at every quiescent point after any sequence of add, set, delete,
\* pop and iter_delete calls, growth and wrap-around included, every
\* occupied bucket at index p with stored hash h and PSL d satisfies
\* (p - (h & mask) + tsize) mod tsize = d.
C25_PslIsDistance ==
    Live =>
      \A p \in Occupied :
        (p - Ideal(p) + ht.tsize) % ht.tsize = ht.buckets[p].psl

\* C25 witness: a table that has grown, with an iterator on it, holds an
\* entry that wrapped around the end of the table (it sits below its ideal
\* position) next to another displaced entry.
C25_Witness ==
    /\ Live /\ ht.tsize >= 4 /\ iters # EmptyBag
    /\ \E p \in Occupied : p < Ideal(p) /\ ht.buckets[p].psl >= 2

\* C26: at every quiescent point entries with the same ideal position
\* occupy consecutive positions, in wrapped order, with PSLs that increase
\* by exactly one; groups appear in the order of their ideal positions; an
\* occupied bucket that follows an empty one has PSL 0, and from one
\* occupied bucket to the next the PSL never increases by more than one.
\* Removals keep this.
C26_BucketGroups ==
    Live =>
      /\ \A p \in Occupied :
           IF Before(p) \notin Occupied THEN ht.buckets[p].psl = 0
           ELSE /\ ht.buckets[p].psl <= ht.buckets[Before(p)].psl + 1
                /\ ht.buckets[p].psl > 0 =>
                     (Ideal(p) = Ideal(Before(p))
                        <=> ht.buckets[p].psl = ht.buckets[Before(p)].psl + 1)
      /\ \A p \in Occupied, q \in Occupied :
           Ideal(p) = Ideal(q) /\ ht.buckets[p].psl <= ht.buckets[q].psl =>
             \A d \in ht.buckets[p].psl .. ht.buckets[q].psl :
               LET m == (Ideal(p) + d) % ht.tsize
               IN  /\ m \in Occupied
                   /\ Ideal(m) = Ideal(p)
                   /\ ht.buckets[m].psl = d
      /\ \A p \in Occupied, q \in Occupied :
           (Ideal(p) = Ideal(q) /\ ht.buckets[p].psl = ht.buckets[q].psl) => p = q

\* C26 witness: a table holding a group of three that wraps around the end
\* of the table, followed by a displaced entry of the next group, from
\* which the removal of the first entry of the group moves the rest of the
\* group and the entry of the next group back by one, across the end of the
\* table.
C26_Witness ==
    /\ Live /\ NoIters /\ ht.max_psl_ct = 0
    /\ \E p \in Occupied :
         /\ ht.buckets[p].psl = 0
         /\ Cardinality({q \in Occupied : Ideal(q) = Ideal(p)}) = 3
         /\ LET r == sht_delete(ht, ht.entries[p].key)
             IN  /\ r.st = "ok" /\ r.ret = 1
                 /\ \E q \in Moved(ht, r.ht) \cap Occupied :
                      q < p /\ Ideal(q) # Ideal(p) /\ ht.buckets[q].psl >= 2

RECURSIVE PslFrom(_, _)
\* The sum of the PSLs of the occupied buckets at positions i and up.
PslFrom(h, i) ==
    IF ~(i < h.tsize) THEN 0
    ELSE (IF h.buckets[i].empty = 0 THEN h.buckets[i].psl ELSE 0) + PslFrom(h, i + 1)

\* C27: at every quiescent point, after any sequence of add, set, delete,
\* pop and iter_delete calls, growth included, count is the number of
\* occupied buckets and what sht_size() returns, psl_sum is the sum of the
\* PSLs of the occupied buckets, and neither has wrapped below zero.
C27_CountAndPslSum ==
    Live =>
      /\ ht.count = Cardinality(Occupied)
      /\ sht_size(ht) = Ret(ht, Cardinality(Occupied), "ok")
      /\ (sht_empty(ht).ret = 1) <=> (Occupied = {})
      /\ ht.psl_sum = PslFrom(ht, 0)
      /\ ht.count >= 0 /\ ht.psl_sum >= 0

\* C27 witness: a table that has grown and from which an entry with the
\* largest PSL was removed (peak_psl is above every PSL left) holds
\* displaced entries, with a read/write iterator that removed an entry.
C27_Witness ==
    /\ Live /\ ht.tsize >= 4 /\ ht.count >= 2 /\ ht.psl_sum >= 2
    /\ ht.peak_psl > MaxPsl(ht)
    /\ \E it \in BagToSet(iters) : it.type = "rw" /\ it.last >= 0

\* C28: at every quiescent point after any sequence of add, set, delete and
\* pop calls, peak_psl is the largest PSL among the occupied buckets.
C28_PeakPslIsMax ==
    Live => ht.peak_psl = MaxPsl(ht)

\* C29: in every reachable state of an initialized table count <= thold,
\* whatever the load factor threshold (at 100 the table may be full) and
\* the initial capacity.
C29_CountWithinThold ==
    ht.tsize # 0 => ht.count <= ht.thold

\* C29 witness: at a load factor threshold of 100 a table that has grown
\* is completely full.
C29_Witness ==
    /\ Live /\ ht.lft = 100 /\ ht.tsize = 4
    /\ ht.count = ht.thold /\ ht.count = ht.tsize
    /\ Occupied = DOMAIN ht.buckets

\* The table sizes: the powers of two from 2 to 2^maxlog.
TableSizes(maxlog) == {2 ^ n : n \in 1 .. maxlog}

\* C30: in every reachable state tsize is 0, exactly when the table is not
\* initialized (it has no arrays), or a power of two between 2 and the
\* maximum, and then mask = tsize - 1 and thold = floor(tsize*lft/100) with
\* thold >= 1; sht_init() chooses such a size, against the maximum of 2^24,
\* for every lft in 1..100 and every capacity it accepts.
C30_TsizePowerOfTwo ==
    /\ ht.tsize = 0 <=> ht.buckets = <<>>
    /\ ht.tsize # 0 =>
         /\ ht.tsize \in TableSizes(MaxTsizeLog)
         /\ DOMAIN ht.buckets = 0 .. ht.tsize - 1
         /\ DOMAIN ht.entries = 0 .. ht.tsize - 1
         /\ ht.mask = ht.tsize - 1
         /\ ht.thold = (ht.tsize * ht.lft) \div 100
         /\ ht.thold >= 1
    /\ ht.tsize = 0 =>
         \A lft \in 1 .. 100 :
           \A capacity \in SizeCaps(lft) :
             LET tsize == sht_init_tsize(capacity, lft, SHT_MAX_TSIZE_FULL)
             IN  tsize # 0 =>
                   /\ tsize \in TableSizes(24)
                   /\ (tsize * lft) \div 100 >= 1

\* C30 witness: at the default load factor threshold the table has grown
\* to 8 buckets (init gives 2 or 4), with threshold 6.
C30_Witness ==
    /\ Live /\ ht.lft = SHT_DEF_LFT /\ ht.tsize = 8
    /\ ht.mask = 7 /\ ht.thold = 6 /\ ht.count = 4

\* The position n steps after pos, in wrapped order.
After(pos, n) == (pos + n) % ht.tsize

\* The run that follows pos ends before position q: q is empty or its
\* occupant has PSL 0.
RunStop(q) == ht.buckets[q].empty = 1 \/ ht.buckets[q].psl = 0

\* The length of the run that follows pos: the number of positions after
\* pos, in wrapped order, before the first one that is empty or holds an
\* occupant with PSL 0.
RunLen(pos) ==
    CHOOSE n \in 0 .. ht.tsize - 1 :
      /\ RunStop(After(pos, n + 1))
      /\ \A m \in 0 .. n - 1 : ~RunStop(After(pos, m + 1))

\* The bucket and entry arrays after the removal of the entry at pos: the
\* run of n moves down by one with its PSLs decreased by one, the last
\* position of the run is empty, the rest is as it was.
ShiftedBuckets(pos, n) ==
    [i \in DOMAIN ht.buckets |->
       LET d == (i - pos + ht.tsize) % ht.tsize
       IN  IF d < n THEN [ht.buckets[After(i, 1)] EXCEPT !.psl = @ - 1]
           ELSE IF d = n THEN EmptyBckt
           ELSE ht.buckets[i]]

ShiftedEntries(pos, n) ==
    [i \in DOMAIN ht.entries |->
       LET d == (i - pos + ht.tsize) % ht.tsize
       IN  IF d < n THEN ht.entries[After(i, 1)]
           ELSE IF d = n THEN JUNK
           ELSE ht.entries[i]]

\* C31: removing the entry at pos moves each entry of the run that follows
\* it (up to the first empty bucket or occupant with PSL 0, in wrapped
\* order) down by one position with its PSL decreased by one, marks the
\* last position of the run empty and leaves every other bucket and entry
\* unchanged, also when the run wraps, when pos is the last index and when
\* the table is full.
C31_RemovalShiftsRun ==
    Live =>
      \A pos \in Occupied :
        LET r == sht_remove_at(ht, pos, TRUE)
        IN  /\ r.st = "ok"
            /\ r.out = ht.entries[pos]
            /\ \E n \in 0 .. ht.tsize - 1 : RunStop(After(pos, n + 1))
            /\ r.ht.buckets = ShiftedBuckets(pos, RunLen(pos))
            /\ r.ht.entries = ShiftedEntries(pos, RunLen(pos))
            /\ r.ht.tsize = ht.tsize /\ r.ht.mask = ht.mask

\* C31 witness: a completely full table of four, whose last index holds an
\* entry followed by a run of two that wraps around the end of the array;
\* its removal moves the two down and empties the position after them.
C31_Witness ==
    /\ Live /\ ht.tsize = 4 /\ Occupied = DOMAIN ht.buckets
    /\ RunLen(ht.mask) = 2
    /\ LET r == sht_remove_at(ht, ht.mask, TRUE)
       IN  /\ r.st = "ok"
           /\ r.ht.entries[ht.mask] = ht.entries[0]
           /\ r.ht.entries[0] = ht.entries[1]
           /\ r.ht.buckets[1].empty = 1
           /\ r.ht.buckets[2] = ht.buckets[2]

\* The position n steps along the probe path of key k in table h.
Path(h, k, n) == BitAnd(hashfn(h.hashfn, k) + n, h.mask)

\* The table after sht_add() of keys 1, 2, 3, 4 (A, B, C, D), in that
\* order, to table h.
AddedABCD(h) ==
    LET a == sht_add(h, 1, Entry(1, 1), TRUE).ht
        b == sht_add(a, 2, Entry(2, 1), TRUE).ht
        c == sht_add(b, 3, Entry(3, 1), TRUE).ht
    IN  sht_add(c, 4, Entry(4, 1), TRUE).ht

\* The PSLs read along the first four positions of the probe path of A.
PslsOnPath(h) ==
    [n \in 1 .. 4 |->
       IF h.buckets[Path(h, 1, n - 1)].empty = 1 THEN -1
       ELSE h.buckets[Path(h, 1, n - 1)].psl]

\* The keys read along the first four positions of the probe path of A.
KeysOnPath(h) == [n \in 1 .. 4 |-> h.entries[Path(h, 1, n - 1)].key]

\* C32 as stated: after adding A, B, C, D in that order to an empty table
\* the PSLs along the probe path are 0, 1, 2, 0, and get of each key
\* returns its entry.
C32_PslSequence0120 ==
    Live /\ ht.count = 0 =>
      /\ PslsOnPath(AddedABCD(ht)) = <<0, 1, 2, 0>>
      /\ \A k \in 1 .. 4 :
           sht_get(AddedABCD(ht), k) = Found(AddedABCD(ht), Entry(k, 1))

\* C32 as amended: after adding A, B, C, D in that order to an empty table
\* (whether or not the table grows on the way) A, B, C, D sit in that order
\* along the probe path with PSLs 0, 1, 2, 1: D finds its ideal position
\* taken by C, whose PSL is larger, moves one on and is stored there,
\* displacing no one; get of each key returns its entry.  A table that
\* holds the four keys, however it came to, has these PSLs.
C32_PslSequence0121 ==
    /\ Live /\ ht.count = 0 =>
         /\ PslsOnPath(AddedABCD(ht)) = <<0, 1, 2, 1>>
         /\ KeysOnPath(AddedABCD(ht)) = <<1, 2, 3, 4>>
         /\ Path(ht, 4, 0) = Path(ht, 1, 2)
         /\ AddedABCD(ht).count = 4
         /\ \A k \in 1 .. 4 :
              sht_get(AddedABCD(ht), k) = Found(AddedABCD(ht), Entry(k, 1))
    /\ Live /\ ht.count = 4 /\ (\A k \in 1 .. 4 : amap[k] # Absent) =>
         PslsOnPath(ht) = <<0, 1, 2, 1>>
    /\ Live /\ KeysOnPath(ht) = <<1, 2, 3, 0>> /\ PslsOnPath(ht) = <<0, 1, 2, -1>> =>
         LET d == sht_add(ht, 4, Entry(4, 1), TRUE).ht
         IN  \A n \in 0 .. 2 :
               /\ d.buckets[Path(d, 1, n)].psl = n
               /\ d.entries[Path(d, 1, n)].key = n + 1

\* C32 witness: the table holds A, B, C, D in that order along the probe
\* path of A, D one position after its ideal position, which C holds.
C32_Witness ==
    /\ Live /\ ht.count = 4 /\ ht.tsize = 8
    /\ KeysOnPath(ht) = <<1, 2, 3, 4>>
    /\ PslsOnPath(ht) = <<0, 1, 2, 1>>
    /\ Path(ht, 4, 0) = Path(ht, 1, 2)
    /\ \A k \in 1 .. 4 : sht_get(ht, k).ret = 1

\* C33: an add or set of a key that is already present changes neither
\* count, tsize, thold nor any bucket word and never grows the table, also
\* when count = thold; add changes no entry, and set changes at most the
\* entry slot of that key, to the entry it was given.
C33_PresentKeyKeepsStructure ==
    Live /\ ht.iter_lock = 0 =>
      \A k \in DOMAIN amap, v \in Vals, malloc_ok \in BOOLEAN :
        amap[k] # Absent =>
          LET a == sht_add(ht, k, Entry(k, v), malloc_ok)
              s == sht_set(ht, k, Entry(k, v), malloc_ok)
          IN  /\ a.st = "ok" /\ s.st = "ok"
              /\ a.ht = [ht EXCEPT !.err = a.ht.err]
              /\ s.ht = [ht EXCEPT !.err = s.ht.err, !.entries = s.ht.entries]
              /\ \A p \in DOMAIN ht.entries :
                   s.ht.entries[p] # ht.entries[p] =>
                     /\ p = PosOf(k)
                     /\ s.ret = 1
                     /\ s.ht.entries[p] = Entry(k, v)

\* C33 witness: a table at its threshold that could still grow holds a
\* displaced key whose set overwrites the payload and leaves the size.
C33_Witness ==
    /\ Live /\ ht.iter_lock = 0
    /\ ht.count = ht.thold /\ ht.tsize < SHT_MAX_TSIZE
    /\ \E p \in Occupied :
         LET s == sht_set(ht, ht.entries[p].key,
                          Entry(ht.entries[p].key, 3 - ht.entries[p].val), TRUE)
         IN  /\ ht.buckets[p].psl > 0
             /\ s.ret = 1
             /\ s.ht.entries[p] # ht.entries[p]
             /\ s.ht.tsize = ht.tsize

\* The calls of ht->eqfn made by sht_ht_grow() on the table ht.
GrowEqCalls ==
    LET a == sht_alloc_arrays(ht, ht.tsize * 2, TRUE)
    IN  IF ht.tsize = SHT_MAX_TSIZE \/ a.ret = 0 THEN {}
        ELSE rehash_eq_calls(a.ht, ht, 0, a.ht.tsize \div 2)

\* The calls of ht->eqfn made by the first probe of an insertion of entry
\* ce under key k, or by a search for k (ce = NULL).
FirstEqCalls(k, ce) == probe_eq_calls(ht, hashfn(ht.hashfn, k), k, ce, FALSE)

\* Every call in calls compares the key k, while the candidate is still ce,
\* with an occupied bucket of ht whose hash bits equal those of k and whose
\* PSL equals the distance of the position from the ideal position of k.
OwnKeyOnMatch(calls, k, ce) ==
    \A c \in calls :
      /\ c.key = k /\ c.ce = ce
      /\ c.pos \in Occupied
      /\ c.ob = ht.buckets[c.pos]
      /\ c.ob.hash = hashfn(ht.hashfn, k) % (2 ^ HASH_BITS)
      /\ c.ob.psl = c.cb.psl
      /\ c.cb.psl = BitAnd(c.pos + ht.tsize - BitAnd(hashfn(ht.hashfn, k), ht.mask),
                           ht.mask)

\* C34: the equality function is called only for the key of the caller
\* while that key is the candidate (never during the re-population of a
\* growth, never for a displaced entry), and only against an occupied
\* bucket whose stored hash bits and PSL equal those of the candidate at
\* that position.
C34_EqfnOnlyOnFingerprintMatch ==
    Live =>
      /\ GrowEqCalls = {}
      /\ \A k \in Keys :
           /\ OwnKeyOnMatch(FirstEqCalls(k, NULL), k, NULL)
           /\ \A v \in Vals :
                OwnKeyOnMatch(FirstEqCalls(k, Entry(k, v)), k, Entry(k, v))

\* C34 witness: in a table about to grow, an insertion displaces an entry
\* after the equality function has been called for a different key whose
\* bucket word matches, and the growth re-populates two entries of equal
\* bucket word.
C34_Witness ==
    /\ Live /\ ht.count >= 2 /\ ht.tsize < SHT_MAX_TSIZE
    /\ \E p, q \in Occupied : p # q /\ ht.buckets[p].hash = ht.buckets[q].hash
    /\ \E k \in Keys :
         /\ amap[k] = Absent
         /\ FirstEqCalls(k, Entry(k, 1)) # {}
         /\ sht_probe(ht, hashfn(ht.hashfn, k), k, Entry(k, 1), FALSE).ret = -1
         /\ \E p \in Occupied :
              sht_probe(ht, hashfn(ht.hashfn, k), k, Entry(k, 1),
                        FALSE).ht.entries[p].key = k

RECURSIVE Pass(_, _, _, _)
\* The entries the iterator it returns from now on when every returned
\* entry with a key in D is deleted directly after the next that returned
\* it, up to the first absent.
Pass(h, it, D, fuel) ==
    LET n == sht_iter_next(h, it)
        d == sht_iter_delete(n.ht, n.it)
    IN  IF fuel = 0 \/ n.st # "ok" \/ n.ret = 0 THEN <<>>
        ELSE IF n.out.key \in D
        THEN IF d.st # "ok" \/ d.ret = 0 THEN <<n.out>>
             ELSE <<n.out>> \o Pass(d.ht, d.it, D, fuel - 1)
        ELSE <<n.out>> \o Pass(n.ht, n.it, D, fuel - 1)

\* The number of times e occurs in the sequence seq.
Times(seq, e) == Cardinality({i \in DOMAIN seq : seq[i] = e})

\* The pass of a new read/write iterator over ht that deletes the keys in D.
FreshPass(D) ==
    LET i == sht_iter_new(ht, "rw", TRUE)
    IN  Pass(i.ht, i.it, D, 2 * ht.tsize + 1)

\* C35: in a pass of a read/write iterator with deletions directly after
\* the next that returned the entry, every entry that is not deleted is
\* returned exactly once before exhaustion is reported, also when the
\* backshift of a deletion wraps around the end of the bucket array.
C35_PassReturnsKeptOnce ==
    Live /\ ht.iter_lock = 0 =>
      \A D \in SUBSET Keys :
        \A e \in Held(ht) : e.key \notin D => Times(FreshPass(D), e) = 1

\* C36: the cursor of a read/write iterator is a sentinel or the position
\* of an occupied bucket, so the assertions of iter_delete and iter_replace
\* hold; an iter_delete or iter_replace directly after a successful
\* iter_delete removes and overwrites no other entry.
C36_CursorOnReturnedEntry ==
    Live =>
      \A it \in RwLive :
        /\ it.last \notin {-1, INT32_MAX} =>
             it.last \in Occupied
        /\ LET n  == sht_iter_next(ht, it)
               d  == sht_iter_delete(n.ht, n.it)
               d2 == sht_iter_delete(d.ht, d.it)
           IN  n.ret = 1 /\ d.ret = 1 =>
                 /\ d2.st = "ok"
                 /\ Held(d2.ht) = Held(d.ht)
                 /\ \A v \in Vals, k \in Keys :
                      LET r2 == sht_iter_replace(d.ht, d.it, Entry(k, v))
                      IN  r2.st = "ok" /\ r2.ht.entries = d.ht.entries

\* The call r came to an end: its loops stopped by themselves.
Terminates(r) == r.st # "hang"

\* C37: add, set, get, delete, pop, replace and swap terminate in every
\* reachable state, also in a completely full table at load factor 100:
\* the probe loop and the scan for the run to shift stop after finitely
\* many steps.
C37_CallsTerminate ==
    Live /\ ht.iter_lock = 0 =>
      /\ \A k \in Keys :
           /\ Terminates(sht_get(ht, k))
           /\ Terminates(sht_delete(ht, k))
           /\ Terminates(sht_pop(ht, k))
           /\ \A v \in Vals :
                /\ Terminates(sht_replace(ht, k, Entry(k, v)))
                /\ Terminates(sht_swap(ht, k, Entry(k, v)))
                /\ \A malloc_ok \in BOOLEAN :
                     /\ Terminates(sht_add(ht, k, Entry(k, v), malloc_ok))
                     /\ Terminates(sht_set(ht, k, Entry(k, v), malloc_ok))
      /\ \A pos \in Occupied :
           find_end(ht, pos, BitAnd(pos + 1, ht.mask), 2 * ht.tsize + 2)
             \in 0 .. ht.tsize - 1

\* C37 witness: a completely full table in which the probe for an absent
\* key goes round the whole array and returns, and in which the scan after
\* a removal passes every other bucket before it stops.
C37_Witness ==
    /\ Live /\ ht.iter_lock = 0
    /\ ht.count = ht.tsize /\ ht.lft = 100
    /\ \E k \in Keys :
         /\ amap[k] = Absent
         /\ sht_get(ht, k) = NotFound(ht)
         /\ sht_add(ht, k, Entry(k, 1), FALSE).st = "ok"
         /\ sht_add(ht, k, Entry(k, 1), FALSE).ret = -1
    /\ \E pos \in Occupied :
         /\ RunLen(pos) = ht.tsize - 1
         /\ sht_delete(ht, ht.entries[pos].key).ret = 1

\* ------------------------------------------- entry addresses (byte level)

\* Largest entry size sht_new_() accepts.
SHT_MAX_ESIZE == 16384

\* Numbers of 32 and more bits are kept as [hi, lo] with lo < Half, the
\* value being hi * Half + lo.
Half == 2 ^ 16

\* The exact product pos * esize (pos <= 2^24, esize <= SHT_MAX_ESIZE).
Wide(pos, esize) ==
    LET low == (pos % Half) * esize
    IN  [hi |-> (pos \div Half) * esize + low \div Half, lo |-> low % Half]

\* w + n for a number n of less than 31 bits.
WideAdd(w, n) ==
    [hi |-> w.hi + (w.lo + n) \div Half, lo |-> (w.lo + n) % Half]

\* w can be held by a size_t of the given number of bits.
Fits(w, bits) == bits = 64 \/ w.hi < Half

\* `p * ht->esize' as the code computes it: both operands are uint32_t, the
\* product is taken modulo 2^32.
entry_offset(pos, esize) == [Wide(pos, esize) EXCEPT !.hi = @ % Half]

\* The size computations of sht_alloc_arrays() for a table seen at byte
\* level: l holds esize, ealign, the width of size_t, tsize and err.
alloc_arrays_sizes(l, tsize, malloc_ok) ==
    LET b_size == tsize * 4
        e_size == Wide(tsize, l.esize)
        pad    == (l.ealign - (b_size % l.ealign)) % l.ealign
        size   == WideAdd(e_size, b_size + pad)
    IN  IF ~Fits(e_size, l.size_bits) THEN [l EXCEPT !.err = "TOOBIG"]
        ELSE IF ~Fits(size, l.size_bits) THEN [l EXCEPT !.err = "TOOBIG"]
        ELSE IF ~malloc_ok THEN [l EXCEPT !.err = "ALLOC"]
        ELSE [l EXCEPT !.tsize = tsize]

\* Entry sizes and alignments given to sht_new_().
EsizeInputs == {1, 4, 24, 256, 512, 4096, SHT_MAX_ESIZE}

EalignInputs == {1, 4, 8}

\* Widths of size_t.
SizeBitsInputs == {32, 64}

\* Positions near the powers of two.
PosInputs(tsize) ==
    {2 ^ i + d : i \in 0 .. 24, d \in {-1, 0, 1}} \cap (0 .. tsize - 1)

\* After sht_new_(): the table seen at byte level is kept in twin.
AddrInit ==
    /\ ht = sht_new_("same", FALSE)
    /\ \E esize \in EsizeInputs, ealign \in EalignInputs,
          bits \in SizeBitsInputs :
         /\ esize % ealign = 0
         /\ twin = [esize |-> esize, ealign |-> ealign, size_bits |-> bits,
                    tsize |-> 0, err |-> "OK", pos |-> 0]
    /\ iters = EmptyBag
    /\ status = "ok"
    /\ amap = [k \in Keys |-> Absent]
    /\ freed = EmptyBag

\* sht_init(): the arrays are allocated with a power of two as size.
AddrAlloc(k, malloc_ok) ==
    /\ twin.tsize = 0
    /\ twin' = alloc_arrays_sizes(twin, 2 ^ k, malloc_ok)
    /\ UNCHANGED <<ht, iters, status, amap, freed>>

\* sht_ht_grow(): arrays of twice the size are allocated.
AddrGrow(malloc_ok) ==
    /\ twin.tsize # 0
    /\ twin' = IF twin.tsize = SHT_MAX_TSIZE_FULL
               THEN [twin EXCEPT !.err = "TOOBIG"]
               ELSE alloc_arrays_sizes(twin, twin.tsize * 2, malloc_ok)
    /\ UNCHANGED <<ht, iters, status, amap, freed>>

\* The entry at position pos is addressed.
AddrEntry(pos) ==
    /\ twin.tsize # 0
    /\ twin' = [twin EXCEPT !.pos = pos]
    /\ UNCHANGED <<ht, iters, status, amap, freed>>

NextAddr ==
    \/ \E k \in 0 .. 24, malloc_ok \in BOOLEAN : AddrAlloc(k, malloc_ok)
    \/ \E malloc_ok \in BOOLEAN : AddrGrow(malloc_ok)
    \/ \E pos \in PosInputs(twin.tsize) : AddrEntry(pos)

SpecAddr == AddrInit /\ [][NextAddr]_vars

\* C38: for every table the allocation accepts and every position below
\* tsize the byte offset pos * esize of the entry is computed without
\* wrapping modulo 2^32, and different positions get different offsets.
C38_EntryOffsetExact ==
    twin.tsize # 0 =>
      /\ entry_offset(twin.pos, twin.esize) = Wide(twin.pos, twin.esize)
      /\ \A q \in PosInputs(twin.tsize) :
           q # twin.pos =>
             entry_offset(q, twin.esize) # entry_offset(twin.pos, twin.esize)

\* C39: sht_probe() changes the table only when it is given an entry and
\* returns -1: in search mode, and in insert mode when it returns the
\* position of the key or -2, the table is as before; -2 is never returned
\* after a displacement.  A hit is the position of the key, -2 is returned
\* only for an absent key of a table at its threshold.
C39_ProbeChangesOnlyOnInsert ==
    Live =>
      \A k \in Keys :
        LET hash == hashfn(ht.hashfn, k)
            f == sht_probe(ht, hash, k, NULL, FALSE)
        IN  /\ f.ht = ht
            /\ f.ret # -2
            /\ \A v \in Vals :
                 LET r == sht_probe(ht, hash, k, Entry(k, v), FALSE)
                 IN  r.st = "ok" =>
                       /\ r.ret # -1 => r.ht = ht
                       /\ r.ret >= 0 => amap[k] # Absent /\ r.ret = PosOf(k)
                       /\ r.ret = -2 => amap[k] = Absent /\ ht.count = ht.thold
                       /\ r.ret = -1 => r.ht.count = ht.count + 1

\* C39 witness: a table at its threshold, not full, in which the probe for
\* an absent key stops with -2 at an occupied bucket it would have had to
\* displace, and the probe for a present key returns its position.
C39_Witness ==
    /\ Live /\ ht.count = ht.thold /\ ht.count < ht.tsize
    /\ \E k \in Keys :
         /\ amap[k] = Absent
         /\ sht_probe(ht, hashfn(ht.hashfn, k), k, Entry(k, 1), FALSE).ret = -2
         /\ sht_probe(ht, hashfn(ht.hashfn, k), k, NULL, FALSE).ret = -1
         /\ \E n \in 0 .. ht.tsize - 1 :
              /\ \A m \in 0 .. n :
                   BitAnd(hashfn(ht.hashfn, k) + m, ht.mask) \in Occupied
              /\ ht.buckets[BitAnd(hashfn(ht.hashfn, k) + n, ht.mask)].psl < n
    /\ \E k \in Keys :
         /\ amap[k] # Absent
         /\ sht_probe(ht, hashfn(ht.hashfn, k), k, Entry(k, 1), FALSE).ret = PosOf(k)

\* The statistics of table h describe its arrays.
StatsExact(h) ==
    LET occ == {p \in DOMAIN h.buckets : h.buckets[p].empty = 0}
    IN  /\ h.count = Cardinality(occ)
        /\ h.psl_sum = PslFrom(h, 0)
        /\ h.max_psl_ct = Cardinality({p \in occ : h.buckets[p].psl = h.psl_limit})
        /\ h.peak_psl = MaxPsl(h)

\* An add of the absent key k needs a growth that can succeed.
MustGrow(k) ==
    /\ ht.iter_lock = 0 /\ ht.max_psl_ct = 0 /\ amap[k] = Absent
    /\ ht.count = ht.thold /\ ht.tsize < SHT_MAX_TSIZE

\* C40: in a growth every re-population probe returns -1 and so does the
\* retry of the insertion after a successful growth (neither assertion
\* fails), the new thold being greater than the old count; after a
\* successful growth max_psl_ct, peak_psl, psl_sum and count describe the
\* re-populated table, which holds the old entries (and the new one).
C40_GrowthRepopulates ==
    Live =>
      \A k \in Keys :
        MustGrow(k) =>
          LET g == sht_ht_grow(ht, TRUE)
          IN  /\ g.st = "ok" /\ g.ret = 1
              /\ g.ht.thold > ht.count
              /\ Held(g.ht) = Held(ht)
              /\ StatsExact(g.ht)
              /\ \A v \in Vals :
                   LET a == sht_add(ht, k, Entry(k, v), TRUE)
                       s == sht_set(ht, k, Entry(k, v), TRUE)
                   IN  /\ a.st = "ok" /\ a.ret = 0
                       /\ a.ht.tsize = 2 * ht.tsize
                       /\ Held(a.ht) = Held(ht) \cup {Entry(k, v)}
                       /\ StatsExact(a.ht)
                       /\ s = a

\* C40 witness: a growth is due in a table that holds a displaced entry;
\* after it two entries are still in one group, and the added entry is
\* stored at the PSL limit.
C40_Witness ==
    /\ Live /\ ht.count >= 2 /\ ht.psl_sum > 0
    /\ \E k \in Keys :
         /\ MustGrow(k)
         /\ sht_ht_grow(ht, TRUE).ht.psl_sum > 0
         /\ sht_add(ht, k, Entry(k, 1), TRUE).ht.max_psl_ct = 1

====
